---- MODULE Spec2Model ----
(***************************************************************************)
(* A model of the composefs repository: the content-addressed object       *)
(* store (Repository::ensure_object, verified open), the split stream      *)
(* codec (SplitStreamWriter / SplitStreamReader), the tar splitter         *)
(* (oci::tar::split / get_entry) and the garbage collector                 *)
(* (Repository::gc).                                                       *)
(*                                                                         *)
(* Values.  One stored unit (a byte, or a little-endian u64 word) holding  *)
(* the number k is N(k); the 32 bytes holding a digest d are D(d).  A      *)
(* digest is the pair <<algorithm, hashed content>>: the two hash          *)
(* functions are collision free and their ranges are disjoint, which is    *)
(* what the code assumes of SHA-256 and of the fsverity Merkle root.       *)
(***************************************************************************)
EXTENDS Integers, Sequences, FiniteSets, TLC

VARIABLES
    \* ---- the repository directory (shared by every handle) ----
    objects,    \* objects/XX/YY...: path -> [content, verity]
    dirs,       \* the directories that exist under the repository
    \* ---- one ensure_object caller per process ----
    pc,         \* position of each caller inside ensure_object
    data,       \* the bytes each caller ingests
    digest,     \* the digest computed at line 73
    tmp,        \* the caller's O_TMPFILE file (NoFile when none is open)
    again,      \* TRUE once the caller has started its second call
    returned,   \* the values returned so far, in call order
    linkres,    \* what linkat answered in the caller's last call ("none" before it)
    faulted,    \* TRUE once the environment failed the caller (short write, kill)
    \* ---- symlinks of the repository: streams/, images/ and their refs/ ----
    links,      \* symlink path -> link text (a relative path)
    \* ---- verified open ----
    opened,     \* the last verified open: what was asked, what was found, the answer
    \* ---- one SplitStreamWriter ----
    sw,         \* the writer: inline_content, writer (encoder input), sha256 context, claim
    logical,    \* the bytes the calls so far stand for, in call order
    ncalls,     \* number of write calls made
    swres,      \* what done() answered (<<"none", ...>> before it)
    \* ---- import of one tar layer, then listing of the stored stream ----
    tar,        \* the bytes of the archive
    members,    \* the members the archive was built from
    tpos,       \* bytes of the archive read by split
    tstate,     \* "split", "stored", "listing", "listed" or "error"
    rd,         \* the SplitStreamReader of the stored stream
    entries,    \* what the get_entry calls answered, in order
    \* ---- Repository::gc ----
    gc_res,     \* "none" before gc ran, then "Ok" or "Err"
    gc_objects, \* the set `objects` gc marked as live
    gc_rm,      \* the paths gc printed "rm" for
    \* ---- Repository handles and their flock ----
    handles,    \* per handle: "closed", "opening", "open", an operation, "gc_wait", "gc_walk"
    flocks,     \* per handle: the lock its descriptor holds: "none", "shared", "exclusive"
    gcret,      \* per handle: what its last gc returned ("none" before)
    \* ---- naming streams and images ----
    call,       \* the last call made: operation, layer or image, name, answer
    \* ---- the tree of a FileSystem ----
    fsys,       \* the FileSystem: its tree and its leaves
    applied,    \* how many entries were applied, the last one and its answer
    dumpfile,   \* the lines write_dumpfile wrote
    \* ---- the kernel command line ----
    cmdparts,   \* the parameters the command line was written from
    cmdline,    \* the bytes of /proc/cmdline
    parsed,     \* what parse_composefs_cmdline returned
    \* ---- Repository::symlink called with any pair ----
    linked,   \* the calls of Repository::symlink made, the last pair and its answer
    \* ---- one Directory and its entries Vec ----
    dent,    \* the entries Vec of one Directory
    dres,   \* the answer of the last call on it
    \* ---- a SplitStreamReader read call after call ----
    rstream,    \* the frames of the stream a reader was opened on
    rcall,   \* the last read call on the reader and its answer
    \* ---- ImageOp::ensure_layer fetching one layer blob ----
    fpc,    \* position of ensure_layer in its body
    blob,    \* number of bytes of the layer blob the proxy has to deliver
    sent,    \* bytes the proxy has written into the pipe so far
    pipe,    \* bytes in the pipe, written and not yet read
    nread,    \* bytes the consumer has read
    fstored,   \* whether write_stream has stored the layer stream
    \* ---- ImageOp::ensure_config pulling one image ----
    ppc,    \* position of ensure_config in its body
    pimage,    \* the manifest layers and the diff_ids of the config of the image pulled
    pstreams,    \* the streams of the repository, name to object id and digest map
    config_maps    \* the DigestMap ensure_config is filling

objvars == <<objects, dirs, pc, data, digest, tmp, again, returned, linkres, faulted>>
procvars == <<pc, data, digest, tmp, again, returned, linkres, faulted>>
openvars == <<opened>>
streamvars == <<sw, logical, ncalls, swres>>
tarvars == <<tar, members, tpos, tstate, rd, entries>>
gcvars == <<gc_res, gc_objects, gc_rm>>
lockvars == <<handles, flocks, gcret>>
treevars == <<fsys, applied, dumpfile>>
cmdvars == <<cmdparts, cmdline, parsed>>

dirvars == <<dent, dres>>
readvars == <<rstream, rcall>>
fetchvars == <<fpc, blob, sent, pipe, nread, fstored>>
pullvars == <<ppc, pimage, pstreams, config_maps>>
linkvars == <<linked>>

\* What the actions of one part of the model leave alone.
ObjFrame == UNCHANGED <<links, opened, streamvars, tarvars, gcvars, lockvars, call, treevars, cmdvars, linkvars, dirvars, readvars, fetchvars, pullvars>>
OpenFrame == UNCHANGED <<procvars, streamvars, tarvars, gcvars, lockvars, call, treevars, cmdvars, linkvars, dirvars, readvars, fetchvars, pullvars>>
StreamFrame == UNCHANGED <<procvars, opened, tarvars, gcvars, lockvars, call, treevars, cmdvars, linkvars, dirvars, readvars, fetchvars, pullvars>>
TarFrame == UNCHANGED <<procvars, opened, ncalls, gcvars, lockvars, call, treevars, cmdvars, linkvars, dirvars, readvars, fetchvars, pullvars>>
LockFrame == UNCHANGED <<procvars, opened, streamvars, tarvars, gcvars, call, treevars, cmdvars, linkvars, dirvars, readvars, fetchvars, pullvars>>
RefsFrame == UNCHANGED <<procvars, opened, streamvars, tarvars, gcvars, lockvars, treevars, cmdvars, linkvars, dirvars, readvars, fetchvars, pullvars>>
TreeFrame ==
    UNCHANGED <<objvars, links, opened, streamvars, tarvars, gcvars, lockvars, call, cmdvars, linkvars, dirvars, readvars, fetchvars, pullvars>>
CmdFrame ==
    UNCHANGED <<objvars, links, opened, streamvars, tarvars, gcvars, lockvars, call, treevars, linkvars, dirvars, readvars, fetchvars, pullvars>>
SymlinkFrame ==
    UNCHANGED <<procvars, opened, streamvars, tarvars, gcvars, lockvars, call, treevars, cmdvars, dirvars, readvars, fetchvars, pullvars>>
DirFrame ==
    UNCHANGED <<objvars, links, opened, streamvars, tarvars, gcvars, lockvars, call, treevars,
                cmdvars, linkvars, readvars, fetchvars, pullvars>>
ReaderFrame ==
    UNCHANGED <<objvars, links, opened, streamvars, gcvars, lockvars, call, treevars,
                cmdvars, linkvars, dirvars, fetchvars, pullvars>>
FetchFrame ==
    UNCHANGED <<objvars, links, opened, streamvars, tarvars, gcvars, lockvars, call, treevars,
                cmdvars, linkvars, dirvars, readvars, pullvars>>
PullFrame ==
    UNCHANGED <<objvars, links, opened, streamvars, tarvars, gcvars, lockvars, call, treevars,
                cmdvars, linkvars, dirvars, readvars, fetchvars>>
GcFrame == UNCHANGED <<procvars, opened, streamvars, tarvars, lockvars, call, treevars, cmdvars, linkvars, dirvars, readvars, fetchvars, pullvars>>

\* ------------------------------------------------------------------ bounds

\* Number of concurrent ensure_object callers.
NumProcs == 2
\* Longest payload handed to ensure_object.
MaxLen == 1

\* ------------------------------------------------------------------ values

N(k) == <<"n", k>>
D(d) == <<"d", d>>
IsNum(e) == e[1] = "n"
IsDigest(e) == e[1] = "d"

ByteVal == {N(0), N(1)}

SeqsUpTo(S, n) == UNION {[1..k -> S] : k \in 0..n}

Prefix(s, n) == SubSeq(s, 1, n)

\* FsVerityHasher::hash: the fsverity digest of a byte string.
FsVerityHash(buffer) == <<"fsv", buffer>>

\* Sha256 over a byte string (context.update ... finalize).
Sha256Hash(buffer) == <<"sha", buffer>>

\* digest[0], the byte that names the objects/XX directory.  The model has
\* two such directories where the code has 256.
FirstByte(d) == Len(d[2]) % 2
FirstBytes == {0, 1}

\* Path components: a literal name, the two hex digits of digest[0], the 62
\* hex digits of digest[1..], the 64 hex digits of a whole digest.
C(s) == <<"c", s>>
XX(k) == <<"xx", k>>
YY(d) == <<"yy", d>>
Hex(d) == <<"hex", d>>

\* "objects/{:02x}" of digest[0]
ObjectDir(d) == <<C("objects"), XX(FirstByte(d))>>

\* Repository::format_object_path: objects/XX/YY...
format_object_path(d) == <<C("objects"), XX(FirstByte(d)), YY(d)>>

\* Repository::parse_object_path: the digest a path objects/XX/YY... spells,
\* NoDigest when the text is no such path.
NoDigest == <<"none", <<>> >>
parse_object_path(p) ==
    IF /\ Len(p) = 3 /\ p[1] = C("objects")
       /\ p[2][1] = "xx" /\ p[3][1] = "yy"
       /\ p[2][2] = FirstByte(p[3][2])
    THEN p[3][2] ELSE NoDigest

NoFile == [content |-> <<>>, verity |-> FALSE, open |-> FALSE]

\* fs_ioc_measure_verity: None when verity is not enabled on the file.
fs_ioc_measure_verity(f) == IF f.verity THEN FsVerityHash(f.content) ELSE NoDigest

\* ------------------------------------------------- Repository::ensure_object

Procs == 1..NumProcs
DataSet == SeqsUpTo(ByteVal, MaxLen)

StoredFile(b) == [content |-> b, verity |-> TRUE]

\* A number for each payload.  The callers are interchangeable, so they are
\* numbered in the order of their payloads.
RECURSIVE PayloadCode(_)
PayloadCode(b) == IF b = <<>> THEN 0 ELSE (Head(b)[2] + 1) + 3 * PayloadCode(Tail(b))

\* A repository holding exactly the payloads of S, each stored by ensure_object.
StoreOf(S) == [p \in {format_object_path(FsVerityHash(b)) : b \in S} |->
                 StoredFile(parse_object_path(p)[2])]
DirsOf(S) == IF S = {} THEN {} ELSE {<<C("objects")>>} \cup {ObjectDir(FsVerityHash(b)) : b \in S}

\* The store starts empty or holding the payload of one of the callers.
ObjInit ==
    /\ data \in [Procs -> DataSet]
    /\ \A p, q \in Procs : p < q => PayloadCode(data[p]) <= PayloadCode(data[q])
    /\ \E S \in SUBSET {data[p] : p \in Procs} :
          /\ Cardinality(S) <= 1
          /\ objects = StoreOf(S)
          /\ dirs = DirsOf(S)
    /\ pc = [p \in Procs |-> "idle"]
    /\ digest = [p \in Procs |-> NoDigest]
    /\ tmp = [p \in Procs |-> NoFile]
    /\ again = [p \in Procs |-> FALSE]
    /\ returned = [p \in Procs |-> <<>>]
    /\ linkres = [p \in Procs |-> "none"]
    /\ faulted = [p \in Procs |-> FALSE]

\* accessat(file, READ_OK) == Ok(())
accessat_Never(p) == FALSE
accessat(p) == p \in DOMAIN objects

\* line 72: the caller enters ensure_object(data[p]).
Call(p) ==
    /\ pc[p] = "idle"
    /\ pc' = [pc EXCEPT ![p] = "check"]
    /\ UNCHANGED <<objects, dirs, data, digest, tmp, again, returned, linkres, faulted>>
    /\ ObjFrame

\* lines 73-80: hash the data; an object that is already there is returned at once.
Check(p) ==
    /\ pc[p] = "check"
    /\ LET d == FsVerityHash(data[p]) IN
         /\ digest' = [digest EXCEPT ![p] = d]
         /\ IF accessat(format_object_path(d))
              THEN /\ pc' = [pc EXCEPT ![p] = "done"]
                   /\ returned' = [returned EXCEPT ![p] = Append(@, <<"Ok", d>>)]
              ELSE /\ pc' = [pc EXCEPT ![p] = "mkdir"]
                   /\ UNCHANGED returned
    /\ UNCHANGED <<objects, dirs, data, tmp, again, linkres, faulted>>
    /\ ObjFrame

\* lines 82-83: ensure_dir("objects"), ensure_dir(dir); EEXIST is Ok.
EnsureDirs(p) ==
    /\ pc[p] = "mkdir"
    /\ dirs' = dirs \cup {<<C("objects")>>, ObjectDir(digest[p])}
    /\ pc' = [pc EXCEPT ![p] = "write"]
    /\ UNCHANGED <<objects, data, digest, tmp, again, returned, linkres, faulted>>
    /\ ObjFrame

\* lines 85-92: an anonymous O_TMPFILE in the directory, one write() whose
\* count is not looked at, fdatasync.  write() may store fewer bytes than asked.
WriteTmp(p) ==
    /\ pc[p] = "write"
    /\ ObjectDir(digest[p]) \in dirs
    /\ \E n \in 0..Len(data[p]) :
          /\ tmp' = [tmp EXCEPT ![p] = [content |-> Prefix(data[p], n),
                                         verity |-> FALSE, open |-> TRUE]]
          /\ faulted' = [faulted EXCEPT ![p] = @ \/ n < Len(data[p])]
    /\ pc' = [pc EXCEPT ![p] = "enable"]
    /\ UNCHANGED <<objects, dirs, data, digest, again, returned, linkres>>
    /\ ObjFrame

\* lines 95-98: reopen read-only, drop the writable fd, FS_IOC_ENABLE_VERITY.
EnableVerity(p) ==
    /\ pc[p] = "enable"
    /\ tmp' = [tmp EXCEPT ![p].verity = TRUE]
    /\ pc' = [pc EXCEPT ![p] = "measure"]
    /\ UNCHANGED <<objects, dirs, data, digest, again, returned, linkres, faulted>>
    /\ ObjFrame

\* lines 101-102: measure again; assert!(measured_digest == digest) panics.
MeasureOk_NoAssert(p) == TRUE
MeasureOk(p) == fs_ioc_measure_verity(tmp[p]) = digest[p]

Measure(p) ==
    /\ pc[p] = "measure"
    /\ IF MeasureOk(p)
         THEN /\ pc' = [pc EXCEPT ![p] = "link"]
              /\ UNCHANGED tmp
         ELSE /\ pc' = [pc EXCEPT ![p] = "panicked"]
              /\ tmp' = [tmp EXCEPT ![p] = NoFile]
    /\ UNCHANGED <<objects, dirs, data, digest, again, returned, linkres, faulted>>
    /\ ObjFrame

\* lines 104-114: what linkat's outcome makes of the call.  "exists" is
\* ErrorKind::AlreadyExists.
LinkResult_NoTolerate(outcome, d) == IF outcome = "linked" THEN <<"Ok", d>> ELSE <<"Err", d>>
LinkResult(outcome, d) == <<"Ok", d>>

\* lines 104-117: linkat into objects/XX/YY, drop the fd, return the digest.
Link(p) ==
    /\ pc[p] = "link"
    /\ LET path == format_object_path(digest[p])
           outcome == IF path \in DOMAIN objects THEN "exists" ELSE "linked" IN
         /\ objects' = IF outcome = "linked"
                         THEN objects @@ (path :> [content |-> tmp[p].content,
                                                   verity |-> tmp[p].verity])
                         ELSE objects
         /\ returned' = [returned EXCEPT ![p] = Append(@, LinkResult(outcome, digest[p]))]
         /\ linkres' = [linkres EXCEPT ![p] = outcome]
    /\ tmp' = [tmp EXCEPT ![p] = NoFile]
    /\ pc' = [pc EXCEPT ![p] = "done"]
    /\ UNCHANGED <<dirs, data, digest, again, faulted>>
    /\ ObjFrame

\* The caller calls ensure_object a second time with the same bytes.
CallAgain(p) ==
    /\ pc[p] = "done"
    /\ ~again[p]
    /\ again' = [again EXCEPT ![p] = TRUE]
    /\ pc' = [pc EXCEPT ![p] = "check"]
    /\ UNCHANGED <<objects, dirs, data, digest, tmp, returned, linkres, faulted>>
    /\ ObjFrame

\* The ingestion is abandoned part-way (the process dies, an error is
\* returned by a system call): the fds are closed, the anonymous file goes.
Abandon(p) ==
    /\ pc[p] \in {"check", "mkdir", "write", "enable", "measure", "link"}
    /\ pc' = [pc EXCEPT ![p] = "abandoned"]
    /\ tmp' = [tmp EXCEPT ![p] = NoFile]
    /\ faulted' = [faulted EXCEPT ![p] = TRUE]
    /\ UNCHANGED <<objects, dirs, data, digest, again, returned, linkres>>
    /\ ObjFrame

ObjNext ==
    \E p \in Procs :
        \/ Call(p)
        \/ Check(p)
        \/ EnsureDirs(p)
        \/ WriteTmp(p)
        \/ EnableVerity(p)
        \/ Measure(p)
        \/ Link(p)
        \/ CallAgain(p)
        \/ Abandon(p)



\* ------------------------------------------------------------ path lookup

\* The path `text`, read from directory `dir`: ".." steps to the parent.
RECURSIVE Walk(_, _)
Walk(dir, text) ==
    IF text = <<>> THEN dir
    ELSE IF Head(text) = C("..")
         THEN Walk(IF dir = <<>> THEN <<>> ELSE SubSeq(dir, 1, Len(dir) - 1), Tail(text))
         ELSE Walk(Append(dir, Head(text)), Tail(text))

Parent(path) == SubSeq(path, 1, Len(path) - 1)

\* The file a name leads to once the kernel has followed the symlinks; at
\* most `fuel` links are followed.
RECURSIVE Resolve(_, _, _)
Resolve(lnk, path, fuel) ==
    IF path \in DOMAIN lnk /\ fuel > 0
    THEN Resolve(lnk, Walk(Parent(path), lnk[path]), fuel - 1)
    ELSE path

\* Repository::openat: the path of the file opened, NoPath for ENOENT.
NoPath == <<C("ENOENT")>>
openat(store, lnk, filename) ==
    LET path == Resolve(lnk, filename, 3) IN
    IF path \in DOMAIN store THEN path ELSE NoPath

\* ---------------------------------------------------------- verified open

\* Repository::open_with_verity: <<"fd", path>> or <<"Err", why>>.
open_with_verity_NoCompare(store, lnk, filename, expected_verity) ==
    LET fd == openat(store, lnk, filename) IN
    IF fd = NoPath THEN <<"Err", C("ENOENT")>> ELSE <<"fd", fd>>
open_with_verity(store, lnk, filename, expected_verity) ==
    LET fd == openat(store, lnk, filename) IN
    IF fd = NoPath THEN <<"Err", C("ENOENT")>>
    ELSE LET measured_verity == fs_ioc_measure_verity(store[fd]) IN
         IF measured_verity = NoDigest THEN <<"Err", C("VerityMissing")>>
         ELSE IF measured_verity # expected_verity THEN <<"Err", C("bad verity!")>>
         ELSE <<"fd", fd>>

\* Repository::open_object
open_object(store, id) == open_with_verity(store, <<>>, format_object_path(id), id)

\* fsverity::measure_verity_digest
measure_verity_digest(f) ==
    LET found == fs_ioc_measure_verity(f) IN
    IF found = NoDigest THEN <<"Err", C("VerityMissing")>> ELSE <<"Ok", found>>

\* fsverity::ensure_verity
ensure_verity(f, expected) ==
    LET found == measure_verity_digest(f) IN
    IF found[1] = "Err" THEN found
    ELSE IF expected = found[2] THEN <<"Ok", expected>>
    ELSE <<"Err", C("DigestMismatch")>>

\* Repository::symlink's link text for streams/<hex> and images/<hex>
ObjectLinkText(id) == <<C("..")>> \o format_object_path(id)

StreamPath(sha) == <<C("streams"), Hex(sha)>>

NoOpen == [op |-> "none", file |-> NoFile, found |-> FALSE,
           expected |-> NoDigest, result |-> <<"none", NoPath>>]

\* Any file may sit at an object path: stored by ensure_object, or put there
\* out of band, with or without verity.
AnyFile == [content : DataSet, verity : BOOLEAN]

OpenInit ==
    /\ \E S \in SUBSET DataSet :
          /\ Cardinality(S) <= 1
          /\ objects \in [{format_object_path(FsVerityHash(b)) : b \in S} -> AnyFile]
          /\ dirs = DirsOf(S) \cup {<<C("streams")>>}
          /\ links = [l \in {StreamPath(Sha256Hash(b)) : b \in S} |->
                        ObjectLinkText(FsVerityHash(l[2][2][2]))]
    /\ opened = NoOpen

Snapshot(store, lnk, filename) ==
    LET fd == openat(store, lnk, filename) IN
    IF fd = NoPath THEN NoFile ELSE [content |-> store[fd].content,
                                      verity |-> store[fd].verity, open |-> TRUE]

\* Repository::open_object(id)
OpenObject(id) ==
    /\ opened' = [op |-> "open_object",
                  file |-> Snapshot(objects, links, format_object_path(id)),
                  found |-> openat(objects, links, format_object_path(id)) # NoPath,
                  expected |-> id,
                  result |-> open_object(objects, id)]
    /\ UNCHANGED <<objects, dirs, links>>
    /\ OpenFrame

\* Repository::open_stream(name, Some(verity)), name the hex of a content hash
OpenStream(sha, verity) ==
    /\ opened' = [op |-> "open_stream",
                  file |-> Snapshot(objects, links, StreamPath(sha)),
                  found |-> openat(objects, links, StreamPath(sha)) # NoPath,
                  expected |-> verity,
                  result |-> open_with_verity(objects, links, StreamPath(sha), verity)]
    /\ UNCHANGED <<objects, dirs, links>>
    /\ OpenFrame

\* fsverity::ensure_verity(fd, expected) on a file of the repository
EnsureVerity(path, expected) ==
    /\ path \in DOMAIN objects
    /\ opened' = [op |-> "ensure_verity",
                  file |-> Snapshot(objects, links, path),
                  found |-> TRUE,
                  expected |-> expected,
                  result |-> ensure_verity(objects[path], expected)]
    /\ UNCHANGED <<objects, dirs, links>>
    /\ OpenFrame

\* The bytes under an object path are replaced out of band.
Tamper(path, f) ==
    /\ path \in DOMAIN objects
    /\ objects[path] # f
    /\ objects' = [objects EXCEPT ![path] = f]
    /\ UNCHANGED <<dirs, links, opened>>
    /\ OpenFrame

Digests == {FsVerityHash(b) : b \in DataSet}

OpenNext ==
    \/ \E id \in Digests : OpenObject(id)
    \/ \E b \in DataSet, v \in Digests : OpenStream(Sha256Hash(b), v)
    \/ \E b \in DataSet, v \in Digests : EnsureVerity(format_object_path(FsVerityHash(b)), v)
    \/ \E b \in DataSet, f \in AnyFile : Tamper(format_object_path(FsVerityHash(b)), f)

\* ------------------------------------------------- Repository::ensure_object
\* (as one call: what the steps above leave behind when nothing fails)

ensure_object(store, bytes) ==
    LET path == format_object_path(FsVerityHash(bytes)) IN
    IF path \in DOMAIN store THEN store ELSE store @@ (path :> StoredFile(bytes))

ensure_object_dirs(ds, store, bytes) ==
    IF format_object_path(FsVerityHash(bytes)) \in DOMAIN store THEN ds
    ELSE ds \cup {<<C("objects")>>, ObjectDir(FsVerityHash(bytes))}

\* ------------------------------------------------------- SplitStreamWriter

\* zstd's Encoder::finish and Decoder: the frame is marked, the payload is
\* carried unchanged (the library is lossless).
ZstdMagic == <<"zstd", 0>>
zstd_finish(raw) == <<ZstdMagic>> \o raw
zstd_decode(stored) == IF stored # <<>> /\ Head(stored) = ZstdMagic THEN Tail(stored) ELSE <<>>
zstd_valid(stored) == stored # <<>> /\ Head(stored) = ZstdMagic

RECURSIVE FlatMap(_)
FlatMap(map) ==
    IF map = <<>> THEN <<>>
    ELSE <<D(Head(map).body), D(Head(map).verity)>> \o FlatMap(Tail(map))

\* SplitStreamWriter::new
NewWriter(refs, sha256) ==
    [inline_content |-> <<>>,
     writer |-> <<N(Len(refs))>> \o FlatMap(refs),
     context |-> <<>>,
     expected |-> sha256]

\* SplitStreamWriter::write_fragment
write_fragment(size, bytes) == <<N(size)>> \o bytes

\* SplitStreamWriter::flush_inline
flush_inline(w, new_value) ==
    IF w.inline_content # <<>>
    THEN [w EXCEPT !.writer = @ \o write_fragment(Len(w.inline_content), w.inline_content),
                   !.inline_content = new_value]
    ELSE w

\* sha256.update(bytes), when the writer has a claimed hash
sha256_update(w, bytes) ==
    IF w.expected # NoDigest THEN [w EXCEPT !.context = @ \o bytes] ELSE w

\* SplitStreamWriter::write_inline
write_inline(w, bytes) ==
    [sha256_update(w, bytes) EXCEPT !.inline_content = @ \o bytes]

\* SplitStreamWriter::write_reference
write_reference_RefFirst(w, reference, padding) ==
    flush_inline([w EXCEPT !.writer = @ \o write_fragment(0, <<D(reference)>>)], padding)
write_reference(w, reference, padding) ==
    [flush_inline(w, padding) EXCEPT !.writer = @ \o write_fragment(0, <<D(reference)>>)]

\* The bytes write_external feeds to the rolling SHA-256 (lines 137-140).
external_hashed_DataOnly(bytes, padding) == bytes
external_hashed(bytes, padding) == bytes \o padding

\* SplitStreamWriter::write_external; the object itself goes to the store
\* by ensure_object(store, bytes), whose answer is the digest of `bytes`.
write_external(w, bytes, padding) ==
    write_reference(sha256_update(w, external_hashed(bytes, padding)),
                    FsVerityHash(bytes), padding)

\* SplitStreamWriter::done up to the hash check: <<"Ok", stream bytes>> or
\* <<"Err", ...>>; the caller stores the bytes with ensure_object.
done(w) ==
    LET f == flush_inline(w, <<>>) IN
    IF f.expected # NoDigest /\ Sha256Hash(f.context) # f.expected
    THEN <<"Err", <<>> >>
    ELSE <<"Ok", zstd_finish(f.writer)>>

\* ------------------------------------------------------- SplitStreamReader

BadReader == [decoder |-> <<>>, refs |-> <<>>, inline_bytes |-> 0, ok |-> FALSE]

RECURSIVE ReadMap(_, _)
ReadMap(units, n) ==
    IF n = 0 THEN <<>>
    ELSE <<[body |-> units[1][2], verity |-> units[2][2]]>> \o ReadMap(SubSeq(units, 3, Len(units)), n - 1)

\* SplitStreamReader::new: the digest map is read, the frames are left.
NewReader(stored) ==
    LET raw == zstd_decode(stored) IN
    IF ~zstd_valid(stored) \/ raw = <<>> \/ ~IsNum(Head(raw)) THEN BadReader
    ELSE LET n == Head(raw)[2] IN
         IF Len(raw) < 1 + 2 * n \/ \E i \in 2..(1 + 2 * n) : ~IsDigest(raw[i])
         THEN BadReader
         ELSE [decoder |-> SubSeq(raw, 2 + 2 * n, Len(raw)),
               refs |-> ReadMap(SubSeq(raw, 2, 1 + 2 * n), n),
               inline_bytes |-> 0, ok |-> TRUE]

Chunk(r, kind, id) == [r |-> r, chunk |-> kind, id |-> id]

\* SplitStreamReader::ensure_chunk
ensure_chunk(r, eof_ok, ext_ok, expected_bytes) ==
    LET fill ==
          IF r.inline_bytes # 0 THEN Chunk(r, "Inline", NoDigest)
          ELSE IF r.decoder = <<>>
               THEN Chunk(r, IF eof_ok THEN "Eof" ELSE "Err", NoDigest)
          ELSE IF ~IsNum(Head(r.decoder)) THEN Chunk(r, "Err", NoDigest)
          ELSE IF Head(r.decoder)[2] = 0
               THEN IF ~ext_ok \/ Len(r.decoder) < 2 \/ ~IsDigest(r.decoder[2])
                    THEN Chunk(r, "Err", NoDigest)
                    ELSE Chunk([r EXCEPT !.decoder = SubSeq(@, 3, Len(@))],
                               "External", r.decoder[2][2])
          ELSE Chunk([r EXCEPT !.decoder = Tail(@), !.inline_bytes = Head(r.decoder)[2]],
                     "Inline", NoDigest) IN
    IF fill.chunk = "Inline" /\ fill.r.inline_bytes < expected_bytes
    THEN Chunk(fill.r, "Err", NoDigest)
    ELSE fill

\* decoder.read_exact / read_into_vec: the next n units, short at end of input
CanRead(r, n) == Len(r.decoder) >= n
Taken(r, n) == SubSeq(r.decoder, 1, n)
Skip(r, n) == [r EXCEPT !.decoder = SubSeq(@, n + 1, Len(@)), !.inline_bytes = @ - n]

\* What SplitStreamReader::cat writes: <<"Ok", bytes>> or <<"Err", <<>> >>.
\* load_data is Repository::open_object followed by read_to_end.
load_data(store, id) ==
    LET fd == open_object(store, id) IN
    IF fd[1] = "fd" THEN <<"Ok", store[fd[2]].content>> ELSE <<"Err", <<>> >>

RECURSIVE cat(_, _)
cat(r, store) ==
    LET c == ensure_chunk(r, TRUE, TRUE, 0) IN
    IF c.chunk = "Eof" THEN <<"Ok", <<>> >>
    ELSE IF c.chunk = "Inline"
         THEN IF ~CanRead(c.r, c.r.inline_bytes) THEN <<"Err", <<>> >>
              ELSE LET rest == cat([Skip(c.r, c.r.inline_bytes) EXCEPT !.inline_bytes = 0], store) IN
                   IF rest[1] = "Err" THEN rest
                   ELSE <<"Ok", Taken(c.r, c.r.inline_bytes) \o rest[2]>>
    ELSE IF c.chunk = "External"
         THEN LET got == load_data(store, c.id)
                  rest == cat(c.r, store) IN
              IF got[1] = "Err" \/ rest[1] = "Err" THEN <<"Err", <<>> >>
              ELSE <<"Ok", got[2] \o rest[2]>>
    ELSE <<"Err", <<>> >>

\* Repository::merge_splitstream of a stored stream object
cat_object(store, id) ==
    LET fd == open_object(store, id) IN
    IF fd[1] # "fd" THEN <<"Err", <<>> >>
    ELSE LET r == NewReader(store[fd[2]].content) IN
         IF r.ok THEN cat(r, store) ELSE <<"Err", <<>> >>

\* ----------------------------------------- a writer driven call after call

\* Number of write_inline / write_external calls before done().
StreamCalls == 3

Paddings == {<<>>, <<N(0)>>}
Claims == {NoDigest} \cup {Sha256Hash(s) : s \in SeqsUpTo(ByteVal, MaxLen + 1)}

NoWriter == NewWriter(<<>>, NoDigest)

StreamInit ==
    /\ objects = <<>> /\ dirs = {} /\ links = <<>>
    /\ \E c \in Claims : sw = NewWriter(<<>>, c)
    /\ logical = <<>>
    /\ ncalls = 0
    /\ swres = <<"none", <<>> >>

WriteInline(bytes) ==
    /\ swres[1] = "none" /\ ncalls < StreamCalls
    /\ sw' = write_inline(sw, bytes)
    /\ logical' = logical \o bytes
    /\ ncalls' = ncalls + 1
    /\ UNCHANGED <<objects, dirs, links, swres>>
    /\ StreamFrame

WriteExternal(bytes, padding) ==
    /\ swres[1] = "none" /\ ncalls < StreamCalls
    /\ objects' = ensure_object(objects, bytes)
    /\ dirs' = ensure_object_dirs(dirs, objects, bytes)
    /\ sw' = write_external(sw, bytes, padding)
    /\ logical' = logical \o bytes \o padding
    /\ ncalls' = ncalls + 1
    /\ UNCHANGED <<links, swres>>
    /\ StreamFrame

\* SplitStreamWriter::done: the hash check, then ensure_object of the stream.
Done ==
    /\ swres[1] = "none"
    /\ LET res == done(sw) IN
         IF res[1] = "Ok"
         THEN /\ objects' = ensure_object(objects, res[2])
              /\ dirs' = ensure_object_dirs(dirs, objects, res[2])
              /\ swres' = <<"Ok", FsVerityHash(res[2])>>
         ELSE /\ swres' = <<"Err", NoDigest>>
              /\ UNCHANGED <<objects, dirs>>
    /\ UNCHANGED <<sw, logical, ncalls, links>>
    /\ StreamFrame

StreamNext ==
    \/ \E b \in DataSet : WriteInline(b)
    \/ \E b \in DataSet, pad \in Paddings : WriteExternal(b, pad)
    \/ Done

\* ------------------------------------------------------ Repository::symlink

CommonLen(a, b) ==
    LET S == {k \in 0..Len(a) : k <= Len(b) /\ SubSeq(a, 1, k) = SubSeq(b, 1, k)} IN
    CHOOSE k \in S : \A j \in S : j <= k

Dots(n) == [i \in 1..n |-> C("..")]

\* The relative link text Repository::symlink computes (lines 389-412).
RelativeText(name, target) ==
    LET k == CommonLen(Parent(name), target) IN
    Dots(Len(Parent(name)) - k) \o SubSeq(target, k + 1, Len(target))

\* The directories Repository::symlink makes sure of (line 405).
Ancestors(name, target) ==
    LET k == CommonLen(Parent(name), target) IN
    {SubSeq(name, 1, i) : i \in (k + 1)..(Len(name) - 1)}

Taken_Names(lnk, ds, store) == DOMAIN lnk \cup DOMAIN store \cup ds

\* Repository::symlink: the links and directories it leaves, and its answer.
\* The loop of line 395 runs off both iterators when target is name's parent.
symlink(lnk, ds, store, name, target) ==
    IF Parent(name) = target
    THEN [links |-> lnk, dirs |-> ds, res |-> "panic"]
    ELSE LET made == Ancestors(name, target) IN
         IF \E a \in made : Len(a) > 1 /\ Parent(a) \notin (ds \cup made)
         THEN [links |-> lnk, dirs |-> ds, res |-> "ENOENT"]
         ELSE IF Len(name) > 1 /\ Parent(name) \notin (ds \cup made)
              THEN [links |-> lnk, dirs |-> ds \cup made, res |-> "ENOENT"]
         ELSE IF name \in Taken_Names(lnk, ds \cup made, store)
              THEN [links |-> lnk, dirs |-> ds \cup made, res |-> "EEXIST"]
              ELSE [links |-> lnk @@ (name :> RelativeText(name, target)),
                    dirs |-> ds \cup made, res |-> "Ok"]

\* Repository::ensure_symlink
ensure_symlink(lnk, ds, store, name, target) ==
    LET r == symlink(lnk, ds, store, name, target) IN
    IF r.res = "EEXIST" THEN [r EXCEPT !.res = "Ok"] ELSE r

RefPath(category, name) == <<C(category), C("refs")>> \o [i \in DOMAIN name |-> C(name[i])]

\* ------------------------------------------------------------ tar archives

\* The tar record size: 512 in the code, small here.
BlockSize == 3
\* Most members of an archive.
MaxMembers == 2

Regular == 1
Directory == 2
GNULongName == 3

Zeros(n) == [i \in 1..n |-> N(0)]
ZeroBlock == Zeros(BlockSize)

\* (actual_size + 511) & !511
StorageSize(actual_size) == ((actual_size + BlockSize - 1) \div BlockSize) * BlockSize

\* A header record: type flag, size, and one unit standing for the name and
\* the mode, uid, gid and mtime fields; the rest of the record is zero.
HeaderOf(m) == <<N(m.type), N(m.size), N(m.meta)>> \o Zeros(BlockSize - 3)
PayloadOf(m) == [i \in 1..m.size |-> N(m.fill)]
MemberBytes(m) == HeaderOf(m) \o PayloadOf(m) \o Zeros(StorageSize(m.size) - m.size)

RECURSIVE TarBytes(_, _)
TarBytes(ms, zeroblocks) ==
    IF ms = <<>> THEN Zeros(zeroblocks * BlockSize)
    ELSE MemberBytes(Head(ms)) \o TarBytes(Tail(ms), zeroblocks)

\* tar::Header accessors
entry_type(header) == header[1][2]
entry_size(header) == header[2][2]
header_meta(header) == header[3][2]

\* lib.rs: files of this many bytes or fewer are to be stored inline.
INLINE_CONTENT_MAX == 64

\* Payload sizes: below one record, one record exactly, more than one.
PayloadSizes == {1, BlockSize, BlockSize + 1}

MemberSet ==
    [type : {Regular}, size : PayloadSizes, meta : {1, 2}, fill : {1}]
    \cup [type : {Regular}, size : {0}, meta : {1, 2}, fill : {0}]
    \cup [type : {Directory}, size : {0}, meta : {1}, fill : {0}]
    \cup [type : {GNULongName}, size : {1, BlockSize}, meta : {1}, fill : {1}]

Archives == UNION {[1..k -> MemberSet] : k \in 0..MaxMembers}

TarInit ==
    /\ objects = <<>> /\ dirs = {} /\ links = <<>>
    /\ members \in Archives
    /\ \E z \in 0..2 : tar = TarBytes(members, z)
    /\ tpos = 0
    /\ tstate = "split"
    /\ sw = NewWriter(<<>>, Sha256Hash(tar))
    /\ logical = <<>>
    /\ swres = <<"none", <<>> >>
    /\ rd = BadReader
    /\ entries = <<>>

\* oci::tar::split, one turn of its loop (lines 44-66): a header is read and
\* written inline, then its payload is read and written.
SplitEntry ==
    /\ tstate = "split"
    /\ Len(tar) - tpos >= BlockSize
    /\ LET header == SubSeq(tar, tpos + 1, tpos + BlockSize)
           w1 == write_inline(sw, header)
           actual_size == entry_size(header)
           storage_size == StorageSize(actual_size)
           buffer == SubSeq(tar, tpos + BlockSize + 1, tpos + BlockSize + storage_size)
           payload == SubSeq(buffer, 1, actual_size)
           padding == SubSeq(buffer, actual_size + 1, storage_size) IN
         IF header = ZeroBlock
         THEN /\ sw' = w1
              /\ logical' = logical \o header
              /\ tpos' = tpos + BlockSize
              /\ UNCHANGED <<objects, dirs, tstate>>
         ELSE IF Len(tar) - tpos - BlockSize < storage_size
         THEN /\ tstate' = "error"
              /\ UNCHANGED <<sw, logical, tpos, objects, dirs>>
         ELSE IF entry_type(header) = Regular /\ storage_size > 0
         THEN /\ objects' = ensure_object(objects, payload)
              /\ dirs' = ensure_object_dirs(dirs, objects, payload)
              /\ sw' = write_external(w1, payload, padding)
              /\ logical' = logical \o header \o payload \o padding
              /\ tpos' = tpos + BlockSize + storage_size
              /\ UNCHANGED tstate
         ELSE /\ sw' = write_inline(w1, buffer)
              /\ logical' = logical \o header \o buffer
              /\ tpos' = tpos + BlockSize + storage_size
              /\ UNCHANGED <<objects, dirs, tstate>>
    /\ UNCHANGED <<links, swres, rd, entries, members, tar>>
    /\ TarFrame

\* read_header answers None at the end of the input: split returns, and
\* Repository::ensure_stream (lines 282-295) finishes the writer, links
\* streams/<sha256> to the object and names it streams/refs/name.
StoreStream ==
    /\ tstate = "split"
    /\ Len(tar) - tpos < BlockSize
    /\ LET res == IF Len(tar) - tpos = 0 THEN done(sw) ELSE <<"Err", <<>> >> IN
         IF res[1] = "Ok"
         THEN LET id == FsVerityHash(res[2])
                  store == ensure_object(objects, res[2])
                  ds == ensure_object_dirs(dirs, objects, res[2])
                  l1 == ensure_symlink(links, ds, store, StreamPath(sw.expected),
                                       format_object_path(id))
                  l2 == symlink(l1.links, l1.dirs, store, RefPath("streams", <<"name">>),
                                StreamPath(sw.expected)) IN
              /\ objects' = store
              /\ links' = l2.links
              /\ dirs' = l2.dirs
              /\ swres' = IF l1.res = "Ok" /\ l2.res = "Ok" THEN <<"Ok", id>>
                          ELSE <<"Err", NoDigest>>
              /\ tstate' = IF l1.res = "Ok" /\ l2.res = "Ok" THEN "stored" ELSE "error"
         ELSE /\ swres' = <<"Err", NoDigest>>
              /\ tstate' = "error"
              /\ UNCHANGED <<objects, links, dirs>>
    /\ UNCHANGED <<sw, logical, tpos, rd, entries, members, tar>>
    /\ TarFrame

\* ------------------------------------------------------- reading a record

\* SplitStreamReader::read_inline_exact: res is "Ok" (true), "Eof" (false)
\* or "Err".
read_inline_exact(r, n) ==
    LET c == ensure_chunk(r, TRUE, FALSE, n) IN
    IF c.chunk = "Inline"
    THEN IF CanRead(c.r, n)
         THEN [r |-> Skip(c.r, n), res |-> "Ok", buffer |-> Taken(c.r, n)]
         ELSE [r |-> c.r, res |-> "Err", buffer |-> <<>>]
    ELSE [r |-> c.r, res |-> IF c.chunk = "Eof" THEN "Eof" ELSE "Err", buffer |-> <<>>]

\* SplitStreamReader::discard_padding
discard_padding(r, size) ==
    LET c == ensure_chunk(r, FALSE, FALSE, size) IN
    IF c.chunk = "Inline" /\ CanRead(c.r, size) /\ size <= BlockSize
    THEN [r |-> Skip(c.r, size), res |-> "Ok"]
    ELSE [r |-> c.r, res |-> "Err"]

\* SplitStreamReader::read_exact: res is "External", "Inline" or "Err".
read_exact(r, actual_size, stored_size) ==
    LET c == ensure_chunk(r, FALSE, TRUE, stored_size) IN
    IF c.chunk = "External"
    THEN IF actual_size < stored_size
         THEN LET p == discard_padding(c.r, stored_size - actual_size) IN
              [r |-> p.r, res |-> IF p.res = "Ok" THEN "External" ELSE "Err",
               id |-> c.id, content |-> <<>>]
         ELSE [r |-> c.r, res |-> "External", id |-> c.id, content |-> <<>>]
    ELSE IF c.chunk = "Inline" /\ CanRead(c.r, stored_size)
    THEN [r |-> Skip(c.r, stored_size), res |-> "Inline", id |-> NoDigest,
          content |-> SubSeq(Taken(c.r, stored_size), 1, actual_size)]
    ELSE [r |-> c.r, res |-> "Err", id |-> NoDigest, content |-> <<>>]

\* ------------------------------------------------------ oci::tar::get_entry

\* path_from_tar: "/" and the GNU long name when there is one, the header's
\* name otherwise.
path_from_tar(gnu, short) ==
    IF gnu # <<>> THEN <<C("/"), <<"gnu", gnu>> >> ELSE <<C("/"), <<"short", short>> >>

NoEntry == [kind |-> "None"]
ErrEntry == [kind |-> "Err"]
Entry(header, gnu, item, size, id, content) ==
    [kind |-> "Entry", path |-> path_from_tar(gnu, header_meta(header)),
     stat |-> header_meta(header), item |-> item, size |-> size,
     id |-> id, content |-> content]

\* oci::tar::get_entry: the reader it leaves and the entry, None or error.
RECURSIVE get_entry(_, _)
get_entry(r, gnu_longname) ==
    LET h == read_inline_exact(r, BlockSize) IN
    IF h.res = "Err" THEN [r |-> h.r, entry |-> ErrEntry]
    ELSE IF h.res = "Eof" \/ h.buffer = ZeroBlock THEN [r |-> h.r, entry |-> NoEntry]
    ELSE LET size == entry_size(h.buffer)
             x == read_exact(h.r, size, StorageSize(size))
             type == entry_type(h.buffer) IN
         IF x.res = "Err" THEN [r |-> x.r, entry |-> ErrEntry]
         ELSE IF x.res = "External"
         THEN IF type = Regular
              THEN [r |-> x.r,
                    entry |-> Entry(h.buffer, gnu_longname, "ExternalFile", size, x.id, <<>>)]
              ELSE [r |-> x.r, entry |-> ErrEntry]
         ELSE IF type = GNULongName THEN get_entry(x.r, gnu_longname \o x.content)
         ELSE IF type = Directory
         THEN [r |-> x.r,
               entry |-> Entry(h.buffer, gnu_longname, "Directory", size, NoDigest, <<>>)]
         ELSE [r |-> x.r,
               entry |-> Entry(h.buffer, gnu_longname, "InlineFile", size, NoDigest, x.content)]

\* Repository::open_stream("refs/name", Some(id)) as tests/repo.rs does.
OpenLayer ==
    /\ tstate = "stored"
    /\ LET fd == open_with_verity(objects, links, RefPath("streams", <<"name">>), swres[2]) IN
         IF fd[1] = "fd" /\ NewReader(objects[fd[2]].content).ok
         THEN /\ rd' = NewReader(objects[fd[2]].content)
              /\ tstate' = "listing"
         ELSE /\ tstate' = "error"
              /\ UNCHANGED rd
    /\ UNCHANGED <<objects, dirs, links, sw, logical, swres, tpos, entries, members, tar>>
    /\ TarFrame

\* One call of oci::tar::get_entry in the loop of tests/repo.rs.
GetEntry ==
    /\ tstate = "listing"
    /\ LET g == get_entry(rd, <<>>) IN
         /\ rd' = g.r
         /\ entries' = Append(entries, g.entry)
         /\ tstate' = IF g.entry.kind = "Entry" THEN "listing" ELSE "listed"
    /\ UNCHANGED <<objects, dirs, links, sw, logical, swres, tpos, members, tar>>
    /\ TarFrame

TarNext == SplitEntry \/ StoreStream \/ OpenLayer \/ GetEntry

\* ------------------------------------------- building a repository, then gc

\* Number of distinct file payloads, layers and images of the repository.
NumPayloads == 2

Payload(k) == <<N(k)>>
Payloads == {Payload(k) : k \in 1..NumPayloads}

\* What a layer's callback writes: one inline record, one external payload.
LayerCalls(k) == << <<"inline", <<N(k)>>, <<>> >>, <<"external", Payload(k), <<>> >> >>
LayerBytes(k) == <<N(k)>> \o Payload(k)

\* An image whose one file is payload k, and what the external inspector
\* (composefs-info objects) lists for an image.
ImageData(k) == <<N(k), D(FsVerityHash(Payload(k)))>>
composefs_info_objects(image) == {image[i][2] : i \in {j \in DOMAIN image : IsDigest(image[j])}}

ImagePath(id) == <<C("images"), Hex(id)>>

\* The callback's writes applied to a writer and to the store.
RECURSIVE ApplyCalls(_, _)
ApplyCalls(st, calls) ==
    IF calls = <<>> THEN st
    ELSE LET c == Head(calls) IN
         ApplyCalls(
           IF c[1] = "inline"
           THEN [st EXCEPT !.w = write_inline(@, c[2])]
           ELSE [w |-> write_external(st.w, c[2], c[3]),
                 objects |-> ensure_object(st.objects, c[2]),
                 dirs |-> ensure_object_dirs(st.dirs, st.objects, c[2])],
           Tail(calls))

\* Repository::has_stream: <<"Some", id>>, <<"None", ..>> or <<"Err", ..>>.
has_stream_None(lnk, sha256) == <<"None", NoDigest>>
has_stream(lnk, sha256) ==
    IF StreamPath(sha256) \notin DOMAIN lnk THEN <<"None", NoDigest>>
    ELSE LET target == lnk[StreamPath(sha256)] IN
         IF target = <<>> \/ Head(target) # C("..") THEN <<"Err", NoDigest>>
         ELSE IF parse_object_path(Tail(target)) = NoDigest THEN <<"Err", NoDigest>>
         ELSE <<"Some", parse_object_path(Tail(target))>>

Repo(store, ds, lnk, res, id) ==
    [objects |-> store, dirs |-> ds, links |-> lnk, res |-> res, id |-> id]

\* The reference half of ensure_stream / write_image (lines 289-292, 349-352).
WithReference_Ensure(rp, category, target, reference) ==
    IF rp.res # "Ok" \/ reference = <<>> THEN rp
    ELSE LET s == ensure_symlink(rp.links, rp.dirs, rp.objects,
                                 RefPath(category, reference), target) IN
         Repo(rp.objects, s.dirs, s.links, s.res, rp.id)
WithReference(rp, category, target, reference) ==
    IF rp.res # "Ok" \/ reference = <<>> THEN rp
    ELSE LET s == symlink(rp.links, rp.dirs, rp.objects, RefPath(category, reference), target) IN
         Repo(rp.objects, s.dirs, s.links, s.res, rp.id)

\* callback(&mut writer)?: a callback whose last step is "Err" made the
\* writes before it and then returned an error.
callback_fails_Never(calls) == FALSE
callback_fails(calls) == calls # <<>> /\ calls[Len(calls)][1] = "Err"
callback_writes(calls) ==
    IF calls # <<>> /\ calls[Len(calls)][1] = "Err" THEN SubSeq(calls, 1, Len(calls) - 1)
    ELSE calls

\* Repository::ensure_stream
ensure_stream(store, ds, lnk, sha256, calls, reference) ==
    LET found == has_stream(lnk, sha256) IN
    IF found[1] = "Err" THEN Repo(store, ds, lnk, "Err", NoDigest)
    ELSE IF found[1] = "Some"
    THEN WithReference(Repo(store, ds, lnk, "Ok", found[2]), "streams",
                       StreamPath(sha256), reference)
    ELSE LET st == ApplyCalls([w |-> NewWriter(<<>>, sha256), objects |-> store,
                               dirs |-> ds], callback_writes(calls))
             res == done(st.w) IN
         IF callback_fails(calls) THEN Repo(st.objects, st.dirs, lnk, "Err", NoDigest)
         ELSE IF res[1] # "Ok" THEN Repo(st.objects, st.dirs, lnk, "Err", NoDigest)
         ELSE LET object_id == FsVerityHash(res[2])
                  store2 == ensure_object(st.objects, res[2])
                  ds2 == ensure_object_dirs(st.dirs, st.objects, res[2])
                  s == ensure_symlink(lnk, ds2, store2, StreamPath(sha256),
                                      format_object_path(object_id)) IN
              WithReference(Repo(store2, s.dirs, s.links, s.res, object_id), "streams",
                            StreamPath(sha256), reference)

\* Repository::write_image
write_image(store, ds, lnk, reference, image) ==
    LET object_id == FsVerityHash(image)
        store2 == ensure_object(store, image)
        ds2 == ensure_object_dirs(ds, store, image)
        s == ensure_symlink(lnk, ds2, store2, ImagePath(object_id),
                            format_object_path(object_id)) IN
    WithReference(Repo(store2, s.dirs, s.links, s.res, object_id), "images",
                  ImagePath(object_id), reference)

\* Repository::read_symlink_hashvalue: the digest spelled by the last 64
\* characters of the link text, NoDigest for an error.
read_symlink_hashvalue(text) ==
    IF Len(text) > 1 /\ text[Len(text)][1] = "hex" THEN text[Len(text)][2] ELSE NoDigest

\* SplitStreamReader::get_object_refs: the digests handed to the callback.
RECURSIVE frame_refs(_)
frame_refs(r) ==
    LET c == ensure_chunk(r, TRUE, TRUE, 0) IN
    IF c.chunk = "Eof" THEN <<"Ok", {}>>
    ELSE IF c.chunk = "Inline"
         THEN IF ~CanRead(c.r, c.r.inline_bytes) THEN <<"Err", {}>>
              ELSE frame_refs([Skip(c.r, c.r.inline_bytes) EXCEPT !.inline_bytes = 0])
    ELSE IF c.chunk = "External"
         THEN LET rest == frame_refs(c.r) IN
              IF rest[1] = "Err" THEN rest ELSE <<"Ok", {c.id} \cup rest[2]>>
    ELSE <<"Err", {}>>

get_object_refs(r) ==
    LET body == frame_refs(r) IN
    IF body[1] = "Err" THEN body
    ELSE <<"Ok", {r.refs[i].verity : i \in DOMAIN r.refs} \cup body[2]>>

\* Repository::gc_category: the digests the names under refs/ spell, and
\* the category's entries it prints "rm" for.
gc_category(ds, lnk, category) ==
    LET named == {p \in DOMAIN lnk :
                    Len(p) > 2 /\ SubSeq(p, 1, 2) = <<C(category), C("refs")>>}
        values == {read_symlink_hashvalue(lnk[p]) : p \in named}
        listed == {p \in DOMAIN lnk : Len(p) = 2 /\ p[1] = C(category)} IN
    IF \/ <<C(category)>> \notin ds
       \/ <<C(category), C("refs")>> \notin ds
       \/ NoDigest \in values
       \/ \E p \in listed : p[2][1] # "hex"
    THEN [res |-> "Err", objects |-> {}, rm |-> {}]
    ELSE [res |-> "Ok", objects |-> values,
          rm |-> {p \in listed : p[2][2] \notin values}]

\* The objects/XX directories gc lists before the first one that is missing.
ListedDirs(ds) ==
    {fb \in FirstBytes : \A b \in FirstBytes : b <= fb => <<C("objects"), XX(b)>> \in ds}

\* Repository::gc: its answer, the set `objects` it marked as live, and the
\* paths it printed "rm" for.  Nothing is unlinked anywhere in the function.
gc(store, ds, lnk) ==
    LET images == gc_category(ds, lnk, "images")
        image_fds == {open_object(store, o) : o \in images.objects}
        image_refs == UNION {composefs_info_objects(store[fd[2]].content) :
                               fd \in {f \in image_fds : f[1] = "fd"}}
        streams == gc_category(ds, lnk, "streams")
        stream_fds == {openat(store, lnk, StreamPath(o)) : o \in streams.objects}
        readers == {NewReader(store[fd].content) : fd \in stream_fds \ {NoPath}}
        stream_refs == {get_object_refs(r) : r \in {x \in readers : x.ok}}
        marked == images.objects \cup image_refs \cup streams.objects
                  \cup UNION {sr[2] : sr \in stream_refs}
        swept == ListedDirs(ds)
        rm_objects == {p \in DOMAIN store : p[2][2] \in swept /\ p[3][2] \notin marked} IN
    IF images.res = "Err" THEN [res |-> "Err", objects |-> {}, rm |-> {}]
    ELSE IF \E fd \in image_fds : fd[1] # "fd"
    THEN [res |-> "Err", objects |-> images.objects, rm |-> images.rm]
    ELSE IF streams.res = "Err"
    THEN [res |-> "Err", objects |-> images.objects \cup image_refs, rm |-> images.rm]
    ELSE IF \/ NoPath \in stream_fds
            \/ \E r \in readers : ~r.ok
            \/ \E sr \in stream_refs : sr[1] = "Err"
    THEN [res |-> "Err", objects |-> marked, rm |-> images.rm \cup streams.rm]
    ELSE [res |-> IF swept = FirstBytes THEN "Ok" ELSE "Err", objects |-> marked,
          rm |-> images.rm \cup streams.rm \cup rm_objects]

\* None, a plain name, a name in a subdirectory of refs/.
RefNames == {<<>>, <<"a">>, <<"b", "c">>}
ImageNames == {<<>>, <<"a">>}

GcInit ==
    /\ objects = <<>> /\ dirs = {} /\ links = <<>>
    /\ gc_res = "none" /\ gc_objects = {} /\ gc_rm = {}

\* Repository::ensure_object of one file payload.
GcEnsureObject ==
    /\ gc_res = "none"
    /\ \E b \in Payloads :
         /\ objects' = ensure_object(objects, b)
         /\ dirs' = ensure_object_dirs(dirs, objects, b)
    /\ UNCHANGED <<links, gc_res, gc_objects, gc_rm>>
    /\ GcFrame

\* Repository::ensure_stream of one layer, named or not.
GcEnsureStream ==
    /\ gc_res = "none"
    /\ \E k \in 1..NumPayloads, reference \in RefNames :
         LET rp == ensure_stream(objects, dirs, links, Sha256Hash(LayerBytes(k)),
                                 LayerCalls(k), reference) IN
         /\ objects' = rp.objects
         /\ dirs' = rp.dirs
         /\ links' = rp.links
    /\ UNCHANGED <<gc_res, gc_objects, gc_rm>>
    /\ GcFrame

\* Repository::write_image of one image, named or not.
GcWriteImage ==
    /\ gc_res = "none"
    /\ \E k \in 1..NumPayloads, reference \in ImageNames :
         LET rp == write_image(objects, dirs, links, reference, ImageData(k)) IN
         /\ objects' = rp.objects
         /\ dirs' = rp.dirs
         /\ links' = rp.links
    /\ UNCHANGED <<gc_res, gc_objects, gc_rm>>
    /\ GcFrame

\* Repository::gc, which ends the run.
Gc ==
    /\ gc_res = "none"
    /\ LET g == gc(objects, dirs, links) IN
         /\ gc_res' = g.res
         /\ gc_objects' = g.objects
         /\ gc_rm' = g.rm
    /\ UNCHANGED <<objects, dirs, links>>
    /\ GcFrame

GcNext == GcEnsureObject \/ GcEnsureStream \/ GcWriteImage \/ Gc

\* --------------------------------------- handles on one repository and flock

\* Number of Repository handles opened on the directory.
NumHandles == 2

Handles == 1..NumHandles
OpNames == {"ensure_object", "ensure_stream", "write_image", "open_object"}

\* flock(2) on Linux: a request is granted when no other open file
\* description holds a conflicting lock.
flock_granted_Always(h, operation) == TRUE
flock_granted(h, operation) ==
    \A o \in Handles \ {h} :
        /\ flocks[o] # "exclusive"
        /\ operation = "exclusive" => flocks[o] = "none"

LockInit ==
    /\ objects = <<>> /\ dirs = {} /\ links = <<>>
    /\ handles = [h \in Handles |-> "closed"]
    /\ flocks = [h \in Handles |-> "none"]
    /\ gcret = [h \in Handles |-> "none"]

\* Repository::open_path, line 46: open(&path).
OpenPath(h) ==
    /\ handles[h] = "closed"
    /\ handles' = [handles EXCEPT ![h] = "opening"]
    /\ gcret' = [gcret EXCEPT ![h] = "none"]
    /\ UNCHANGED <<objects, dirs, links, flocks>>
    /\ LockFrame

\* Repository::open_path, line 49: flock(LockShared) blocks until granted.
LockShared(h) ==
    /\ handles[h] = "opening"
    /\ flock_granted(h, "shared")
    /\ flocks' = [flocks EXCEPT ![h] = "shared"]
    /\ handles' = [handles EXCEPT ![h] = "open"]
    /\ UNCHANGED <<objects, dirs, links, gcret>>
    /\ LockFrame

\* Drop for Repository: flock(Unlock), then the descriptor is closed.
Drop(h) ==
    /\ handles[h] = "open"
    /\ flocks' = [flocks EXCEPT ![h] = "none"]
    /\ handles' = [handles EXCEPT ![h] = "closed"]
    /\ UNCHANGED <<objects, dirs, links, gcret>>
    /\ LockFrame

\* An operation is entered through an open handle; none of them locks.
BeginOp(h) ==
    /\ handles[h] = "open"
    /\ \E op \in OpNames : handles' = [handles EXCEPT ![h] = op]
    /\ UNCHANGED <<objects, dirs, links, flocks, gcret>>
    /\ LockFrame

\* The operation runs to its end and returns.
EndOp(h) ==
    /\ handles[h] \in OpNames
    /\ LET rp == IF handles[h] = "ensure_stream"
                 THEN ensure_stream(objects, dirs, links, Sha256Hash(LayerBytes(1)),
                                    LayerCalls(1), <<"a">>)
                 ELSE IF handles[h] = "write_image"
                 THEN write_image(objects, dirs, links, <<"a">>, ImageData(1))
                 ELSE IF handles[h] = "ensure_object"
                 THEN Repo(ensure_object(objects, Payload(1)),
                           ensure_object_dirs(dirs, objects, Payload(1)), links, "Ok", NoDigest)
                 ELSE Repo(objects, dirs, links, "Ok", NoDigest) IN
         /\ objects' = rp.objects
         /\ dirs' = rp.dirs
         /\ links' = rp.links
    /\ handles' = [handles EXCEPT ![h] = "open"]
    /\ UNCHANGED <<flocks, gcret>>
    /\ LockFrame

\* Repository::gc, line 507: flock(LockExclusive).  The kernel takes the
\* handle's shared lock away first; when another handle holds a lock the
\* caller then sleeps holding none.
GcLock(h) ==
    /\ handles[h] = "open"
    /\ IF flock_granted(h, "exclusive")
       THEN /\ flocks' = [flocks EXCEPT ![h] = "exclusive"]
            /\ handles' = [handles EXCEPT ![h] = "gc_walk"]
       ELSE /\ flocks' = [flocks EXCEPT ![h] = "none"]
            /\ handles' = [handles EXCEPT ![h] = "gc_wait"]
    /\ gcret' = [gcret EXCEPT ![h] = "none"]
    /\ UNCHANGED <<objects, dirs, links>>
    /\ LockFrame

\* The sleeping flock(LockExclusive) of line 507 is granted.
GcAcquire(h) ==
    /\ handles[h] = "gc_wait"
    /\ flock_granted(h, "exclusive")
    /\ flocks' = [flocks EXCEPT ![h] = "exclusive"]
    /\ handles' = [handles EXCEPT ![h] = "gc_walk"]
    /\ UNCHANGED <<objects, dirs, links, gcret>>
    /\ LockFrame

\* Repository::gc, lines 509-571: the walk.  flock(LockShared) is the last
\* expression of the function; every `?` and bail! before it returns
\* without it.
GcReturn_Downgrade(res) == "shared"
GcReturn_Lock(res) == IF res = "Ok" THEN "shared" ELSE "exclusive"
GcReturn(h) ==
    /\ handles[h] = "gc_walk"
    /\ LET g == gc(objects, dirs, links) IN
         /\ gcret' = [gcret EXCEPT ![h] = g.res]
         /\ flocks' = [flocks EXCEPT ![h] = GcReturn_Lock(g.res)]
    /\ handles' = [handles EXCEPT ![h] = "open"]
    /\ UNCHANGED <<objects, dirs, links>>
    /\ LockFrame

LockNext ==
    \E h \in Handles :
        \/ OpenPath(h) \/ LockShared(h) \/ Drop(h) \/ BeginOp(h) \/ EndOp(h)
        \/ GcLock(h) \/ GcAcquire(h) \/ GcReturn(h)

\* ------------------------------------------------- streams, images, names

\* The same layer written by a callback that keeps everything inline.
InlineCalls(k) == << <<"inline", LayerBytes(k), <<>> >> >>
Callbacks(k) == {LayerCalls(k), InlineCalls(k)}
\* Callbacks that do not build the layer: tar::split stopped by an error at
\* the start or after its writes, and the writes of another layer.
CallbackErr == <<"Err", <<>>, <<>> >>
FailingCallbacks(k) ==
    {<<CallbackErr>>, Append(LayerCalls(k), CallbackErr)}
    \cup {LayerCalls(j) : j \in (1..NumPayloads) \ {k}}

\* Repository::write_stream
write_stream(store, ds, lnk, w, reference) ==
    LET res == done(w) IN
    IF res[1] # "Ok" THEN Repo(store, ds, lnk, "Err", NoDigest)
    ELSE LET object_id == FsVerityHash(res[2])
             store2 == ensure_object(store, res[2])
             ds2 == ensure_object_dirs(ds, store, res[2])
             s == ensure_symlink(lnk, ds2, store2, StreamPath(w.expected),
                                 format_object_path(object_id)) IN
         WithReference(Repo(store2, s.dirs, s.links, s.res, object_id), "streams",
                       StreamPath(w.expected), reference)

\* Repository::name_stream
name_stream(store, ds, lnk, sha256, name) ==
    WithReference(Repo(store, ds, lnk, "Ok", NoDigest), "streams", StreamPath(sha256), name)

\* Number of calls made on the repository.
MaxRefCalls == 3

\* None, or the one name the calls compete for.
NamesTried == {<<>>, <<"a">>}

NoCall ==
    [op |-> "none", k |-> 0, name |-> <<>>, res |-> "none", id |-> NoDigest, n |-> 0,
     cb |-> <<>>]
Called(op, k, name, rp) ==
    [op |-> op, k |-> k, name |-> name, res |-> rp.res, id |-> rp.id, n |-> call.n + 1,
     cb |-> <<>>]

RefsInit ==
    /\ objects = <<>> /\ dirs = {} /\ links = <<>>
    /\ call = NoCall

Leaves(rp) ==
    /\ objects' = rp.objects
    /\ dirs' = rp.dirs
    /\ links' = rp.links

\* Repository::ensure_stream(sha256, callback, reference)
RefEnsureStream ==
    /\ call.n < MaxRefCalls
    /\ \E k \in 1..NumPayloads, reference \in NamesTried :
         \E calls \in Callbacks(k) \cup FailingCallbacks(k) :
            LET rp == ensure_stream(objects, dirs, links, Sha256Hash(LayerBytes(k)),
                                    calls, reference) IN
            /\ Leaves(rp)
            /\ call' = [Called("ensure_stream", k, reference, rp) EXCEPT !.cb = calls]
    /\ RefsFrame

\* Repository::create_stream, the caller's writes, Repository::write_stream
RefWriteStream ==
    /\ call.n < MaxRefCalls
    /\ \E k \in 1..NumPayloads, reference \in NamesTried :
         LET st == ApplyCalls([w |-> NewWriter(<<>>, Sha256Hash(LayerBytes(k))),
                               objects |-> objects, dirs |-> dirs], LayerCalls(k))
             rp == write_stream(st.objects, st.dirs, links, st.w, reference) IN
         /\ Leaves(rp)
         /\ call' = Called("write_stream", k, reference, rp)
    /\ RefsFrame

\* Repository::name_stream(sha256, name)
RefNameStream ==
    /\ call.n < MaxRefCalls
    /\ \E k \in 1..NumPayloads, name \in NamesTried \ {<<>>} :
         LET rp == name_stream(objects, dirs, links, Sha256Hash(LayerBytes(k)), name) IN
         /\ Leaves(rp)
         /\ call' = Called("name_stream", k, name, rp)
    /\ RefsFrame

\* Repository::write_image(name, data)
RefWriteImage ==
    /\ call.n < MaxRefCalls
    /\ \E k \in 1..NumPayloads, name \in NamesTried :
         LET rp == write_image(objects, dirs, links, name, ImageData(k)) IN
         /\ Leaves(rp)
         /\ call' = Called("write_image", k, name, rp)
    /\ RefsFrame

RefsNext == RefEnsureStream \/ RefWriteStream \/ RefNameStream \/ RefWriteImage

\* --------------------------------------------- the tree of image::FileSystem

\* A file name is a sequence of pieces; Wh stands for the bytes ".wh.".
Wh == ".wh."
\* The names tried as directory entries, in the byte order Directory keeps.
PlainNames == << <<"a">>, <<"b">> >>

\* The tree maps the path of every entry to its inode; the root is <<>>.
\* A Leaf inode holds an Rc<Leaf>: the number of the leaf it points to.
DirNode(stat) == [kind |-> "dir", stat |-> stat, leaf |-> 0]
LeafNode(id) == [kind |-> "leaf", stat |-> 0, leaf |-> id]

\* The Stat values tried, by number: 0 is the Stat FileSystem::new gives the
\* root ("assigned later"), 1 and 2 are Stats of tar entries.
\* u32::MAX is the bit pattern 0xFFFFFFFF, held here as the signed 32-bit
\* integer with that pattern.
U32_MAX == -1
Stat(n) ==
    IF n = 0
    THEN [st_mode |-> U32_MAX, st_uid |-> U32_MAX, st_gid |-> U32_MAX, st_mtim_sec |-> -1]
    ELSE [st_mode |-> 420, st_uid |-> 0, st_gid |-> 0, st_mtim_sec |-> n]

\* FileSystem::new: the root's stat is assigned later.
NewFileSystem == [tree |-> (<<>> :> DirNode(0)), leaves |-> <<>>]

IsPrefix(p, q) == Len(p) <= Len(q) /\ SubSeq(q, 1, Len(p)) = p
Under(t, p) == {q \in DOMAIN t : IsPrefix(p, q)}
Below(t, p) == Under(t, p) \ {p}
ChildrenOf(t, p) == {q \in DOMAIN t : Len(q) = Len(p) + 1 /\ IsPrefix(p, q)}

\* Directory::find_entry
find_entry(t, dir, name) == Append(dir, name) \in DOMAIN t

\* Directory::recurse: the directory entered, or <<"Err">>.
NoDir == <<"Err">>
recurse(t, dir, name) ==
    IF find_entry(t, dir, name) /\ t[Append(dir, name)].kind = "dir"
    THEN Append(dir, name) ELSE NoDir

\* The walk of process_entry (lines 21-26) and FileSystem::get_parent_dir.
RECURSIVE get_parent_dir(_, _, _)
get_parent_dir(t, dir, components) ==
    IF components = <<>> \/ dir = NoDir THEN dir
    ELSE get_parent_dir(t, recurse(t, dir, Head(components)), Tail(components))

\* Dropping inodes: the entries at the paths of S go, and every Rc<Leaf>
\* among them gives its reference back; a leaf with none left is freed.
Restrict(f, S) == [x \in S |-> f[x]]
DropLeafRefs_Top(t, S, id) == Cardinality({q \in S : t[q].kind = "leaf" /\ t[q].leaf = id /\ Len(q) <= 1})
DropLeafRefs(t, S, id) == Cardinality({q \in S : t[q].kind = "leaf" /\ t[q].leaf = id})
Drop_Inodes(fs, S) ==
    LET strong == [id \in DOMAIN fs.leaves |->
                     fs.leaves[id].strong - DropLeafRefs(fs.tree, S, id)] IN
    [tree |-> Restrict(fs.tree, DOMAIN fs.tree \ S),
     leaves |-> [id \in {i \in DOMAIN fs.leaves : strong[i] > 0} |->
                   [fs.leaves[id] EXCEPT !.strong = strong[id]]]]

\* Directory::remove
remove_EntryOnly(fs, dir, name) ==
    IF find_entry(fs.tree, dir, name) THEN Drop_Inodes(fs, {Append(dir, name)})
    ELSE fs
remove(fs, dir, name) ==
    IF find_entry(fs.tree, dir, name) THEN Drop_Inodes(fs, Under(fs.tree, Append(dir, name)))
    ELSE fs

\* Directory::remove_all
remove_all(fs, dir) == Drop_Inodes(fs, Below(fs.tree, dir))

\* Directory::mkdir: <<"Ok", fs>>, or <<"panic", fs>> at the todo!().
mkdir_Replace(fs, dir, name, stat) ==
    LET p == Append(dir, name) IN
    IF find_entry(fs.tree, dir, name) /\ fs.tree[p].kind = "leaf" THEN <<"panic", fs>>
    ELSE <<"Ok", [remove(fs, dir, name) EXCEPT !.tree = @ @@ (p :> DirNode(stat))]>>
mkdir(fs, dir, name, stat) ==
    LET p == Append(dir, name) IN
    IF find_entry(fs.tree, dir, name)
    THEN IF fs.tree[p].kind = "dir"
         THEN <<"Ok", [fs EXCEPT !.tree = [@ EXCEPT ![p] = DirNode(stat)]]>>
         ELSE <<"panic", fs>>
    ELSE <<"Ok", [fs EXCEPT !.tree = @ @@ (p :> DirNode(stat))]>>

\* Rc::new(Leaf { stat, content }): the leaf gets the first free number.
FreshLeaf(fs) == CHOOSE i \in 1..(Cardinality(DOMAIN fs.leaves) + 1) : i \notin DOMAIN fs.leaves
NewLeaf(fs, stat, content) ==
    [fs EXCEPT !.leaves = @ @@ (FreshLeaf(fs) :> [stat |-> stat, content |-> content, strong |-> 1])]

\* Rc::clone
CloneLeaf(fs, id) == [fs EXCEPT !.leaves = [@ EXCEPT ![id].strong = @ + 1]]

\* Directory::insert of an Rc<Leaf> the caller owns: the entry is set or
\* added, and the inode it replaces is dropped.
insert(fs, dir, name, id) ==
    LET p == Append(dir, name)
        old == IF find_entry(fs.tree, dir, name) THEN Under(fs.tree, p) ELSE {}
        dropped == Drop_Inodes(fs, old) IN
    [dropped EXCEPT !.tree = @ @@ (p :> LeafNode(id))]

\* Directory::get_for_link on the parent found by FileSystem::get_for_link:
\* the number of the leaf, 0 for an error.
get_for_link(fs, target) ==
    LET dir == get_parent_dir(fs.tree, <<>>, Parent(target)) IN
    IF target = <<>> \/ dir = NoDir THEN 0
    ELSE IF target \in DOMAIN fs.tree /\ fs.tree[target].kind = "leaf"
         THEN fs.tree[target].leaf ELSE 0

\* FileSystem::hardlink
hardlink(fs, name, target) ==
    LET id == get_for_link(fs, target)
        dir == get_parent_dir(fs.tree, <<>>, Parent(name)) IN
    IF id = 0 \/ dir = NoDir THEN <<"Err", fs>>
    ELSE <<"Ok", insert(CloneLeaf(fs, id), dir, name[Len(name)], id)>>

\* -------------------------------------------------- oci::image::process_entry

\* What is left of the file name ".wh..wh..opq" once ".wh." is stripped.
OpaqueRest_Spec == <<Wh, ".opq">>
\* The bytes process_entry compares the rest with: ".wh.opq".
OpaqueRest == <<Wh, "opq">>

\* process_entry: <<"Ok" | "Err" | "panic", file system>>.
process_entry(fs, entry) ==
    IF entry.path = <<>> THEN <<"Err", fs>>
    ELSE LET filename == entry.path[Len(entry.path)]
             dir == get_parent_dir(fs.tree, <<>>, Parent(entry.path)) IN
         IF dir = NoDir THEN <<"Err", fs>>
         ELSE IF Head(filename) = Wh
         THEN IF Tail(filename) = OpaqueRest
              THEN <<"Ok", remove_all(fs, dir)>>
              ELSE <<"Ok", remove(fs, dir, Tail(filename))>>
         ELSE IF entry.item = "Directory" THEN mkdir(fs, dir, filename, entry.stat)
         ELSE IF entry.item = "Leaf"
         THEN <<"Ok", insert(NewLeaf(fs, entry.stat, entry.content), dir, filename, FreshLeaf(fs))>>
         ELSE hardlink(fs, entry.path, entry.target)

\* Number of entries applied to a tree.
MaxEntries == 4

NameSet == {PlainNames[i] : i \in DOMAIN PlainNames}
WhiteoutNames == {<<Wh>> \o n : n \in NameSet} \cup {<<Wh>> \o OpaqueRest, <<Wh>> \o OpaqueRest_Spec}
DirPaths == {<<>>} \cup {<<n>> : n \in NameSet}
PlainPaths == {Append(d, f) : d \in DirPaths, f \in NameSet}
WhiteoutPaths == {Append(d, f) : d \in DirPaths, f \in WhiteoutNames}

\* The entries tried: directories, files and hard links at the plain paths,
\* and one entry of each type at every whiteout path.
TarEntries ==
    [path : PlainPaths, item : {"Directory"}, stat : {1, 2}, content : {"none"}, target : {<<>>}]
    \cup [path : PlainPaths \cup WhiteoutPaths, item : {"Leaf"}, stat : {1},
          content : {"InlineFile"}, target : {<<>>}]
    \cup [path : PlainPaths, item : {"Hardlink"}, stat : {1}, content : {"none"},
          target : PlainPaths]
    \cup [path : WhiteoutPaths, item : {"Directory"}, stat : {1}, content : {"none"},
          target : {<<>>}]
    \cup [path : WhiteoutPaths, item : {"Hardlink"}, stat : {1}, content : {"none"},
          target : {<< <<"b">> >>}]

NoTarEntry == [path |-> <<>>, item |-> "none", stat |-> 0, content |-> "none", target |-> <<>>]

\* -------------------------------------------------------- dumpfile::write_dumpfile

\* dir.entries in the order of the Vec.
EntriesOf(t, p) ==
    LET names == SelectSeq(PlainNames, LAMBDA n : Append(p, n) \in DOMAIN t) IN
    [i \in DOMAIN names |-> Append(p, names[i])]

\* The fold of write_dir (lines 229-236).
dir_nlink_Entries(t, p) == 2 + Cardinality(ChildrenOf(t, p))
dir_nlink(t, p) == 2 + Cardinality({q \in ChildrenOf(t, p) : t[q].kind = "dir"})

\* The size write_leaf prints: the files tried hold one byte inline.
content_size(content) == IF content = "InlineFile" THEN 1 ELSE 0

\* Rc::strong_count
strong_count_One(fs, id) == 1
strong_count(fs, id) == fs.leaves[id].strong

\* DumpfileWriter::write_dir and write_leaf over the inodes still to be
\* written, first on top; hardlinks maps a leaf to the path of its first line.
RECURSIVE write_inodes(_, _, _)
write_inodes(fs, todo, hardlinks) ==
    IF todo = <<>> THEN <<>>
    ELSE LET p == Head(todo)
             inode == fs.tree[p] IN
         IF inode.kind = "dir"
         THEN <<[path |-> p, kind |-> "dir", nlink |-> dir_nlink(fs.tree, p),
                 stat |-> inode.stat, target |-> <<>>, size |-> 0, mode |-> "40000|st_mode"]>>
              \o write_inodes(fs, EntriesOf(fs.tree, p) \o Tail(todo), hardlinks)
         ELSE LET nlink == strong_count(fs, inode.leaf) IN
              IF nlink > 1 /\ inode.leaf \in DOMAIN hardlinks
              THEN <<[path |-> p, kind |-> "hardlink", nlink |-> 0, stat |-> 0,
                      target |-> hardlinks[inode.leaf], size |-> 0, mode |-> "@120000"]>>
                   \o write_inodes(fs, Tail(todo), hardlinks)
              ELSE <<[path |-> p, kind |-> "leaf", nlink |-> nlink,
                      stat |-> fs.leaves[inode.leaf].stat, target |-> <<>>,
                      size |-> content_size(fs.leaves[inode.leaf].content),
                      mode |-> "ifmt|st_mode"]>>
                   \o write_inodes(fs, Tail(todo),
                                   IF nlink > 1 THEN hardlinks @@ (inode.leaf :> p)
                                   ELSE hardlinks)

\* write_dumpfile
write_dumpfile(fs) == write_inodes(fs, << <<>> >>, <<>>)

TreeInit ==
    /\ fsys = NewFileSystem
    /\ applied = [n |-> 0, entry |-> NoTarEntry, res |-> "none"]
    /\ dumpfile = <<>>

\* One entry of a layer is applied, as compose_filesystem does.
ProcessEntry ==
    /\ applied.n < MaxEntries /\ applied.res # "panic" /\ dumpfile = <<>>
    /\ \E entry \in TarEntries :
         LET r == process_entry(fsys, entry) IN
         /\ fsys' = r[2]
         /\ applied' = [n |-> applied.n + 1, entry |-> entry, res |-> r[1]]
    /\ UNCHANGED dumpfile
    /\ TreeFrame

\* create_dumpfile, and create_image through mkcomposefs: once the layers are
\* applied the tree, as it is, goes to write_dumpfile.
WriteDumpfile ==
    /\ applied.res \notin {"Err", "panic"} /\ dumpfile = <<>>
    /\ dumpfile' = write_dumpfile(fsys)
    /\ UNCHANGED <<fsys, applied>>
    /\ TreeFrame

TreeNext == ProcessEntry \/ WriteDumpfile

\* ------------------------------ composefs-pivot-sysroot: the kernel command line

\* Bytes of a Sha256HashValue (32 in the code); the value is twice as many
\* hex digits.
DigestBytes == 2

\* The command line is a sequence of bytes; the nine bytes "composefs" are
\* one piece of it.
Whitespace == {" ", "\n"}
Prefix_composefs == <<"composefs", "=">>

\* <[u8]>::split(|c| c.is_ascii_whitespace())
RECURSIVE split_whitespace(_)
split_whitespace(bytes) ==
    IF \A i \in DOMAIN bytes : bytes[i] \notin Whitespace THEN <<bytes>>
    ELSE LET i == CHOOSE j \in DOMAIN bytes :
                      bytes[j] \in Whitespace /\ \A k \in 1..(j - 1) : bytes[k] \notin Whitespace IN
         <<SubSeq(bytes, 1, i - 1)>> \o split_whitespace(SubSeq(bytes, i + 1, Len(bytes)))

\* <[u8]>::strip_prefix: <<TRUE, rest>> or <<FALSE, <<>> >>.
strip_prefix(part, prefix) ==
    IF Len(part) >= Len(prefix) /\ SubSeq(part, 1, Len(prefix)) = prefix
    THEN <<TRUE, SubSeq(part, Len(prefix) + 1, Len(part))>>
    ELSE <<FALSE, <<>> >>

\* hex: the value of a digit, -1 for any other byte.
HexLower == <<"0", "1", "2", "3", "4", "5", "6", "7", "8", "9", "a", "b", "c", "d", "e", "f">>
HexUpper == <<"0", "1", "2", "3", "4", "5", "6", "7", "8", "9", "A", "B", "C", "D", "E", "F">>
val(c) ==
    IF \E i \in DOMAIN HexLower : HexLower[i] = c
    THEN (CHOOSE i \in DOMAIN HexLower : HexLower[i] = c) - 1
    ELSE IF \E i \in DOMAIN HexUpper : HexUpper[i] = c
    THEN (CHOOSE i \in DOMAIN HexUpper : HexUpper[i] = c) - 1
    ELSE -1

\* hex::decode_to_slice into [0; 32]: <<"Ok", bytes>> or <<"Err", <<>> >>.
decode_to_slice_AnyLength(hexdigits) ==
    IF \E i \in DOMAIN hexdigits : val(hexdigits[i]) < 0 THEN <<"Err", <<>> >>
    ELSE <<"Ok", [i \in 1..DigestBytes |->
                    IF 2 * i <= Len(hexdigits)
                    THEN 16 * val(hexdigits[2 * i - 1]) + val(hexdigits[2 * i]) ELSE 0]>>
decode_to_slice(hexdigits) ==
    IF Len(hexdigits) % 2 # 0 THEN <<"Err", <<>> >>
    ELSE IF Len(hexdigits) \div 2 # DigestBytes THEN <<"Err", <<>> >>
    ELSE IF \E i \in DOMAIN hexdigits : val(hexdigits[i]) < 0 THEN <<"Err", <<>> >>
    ELSE <<"Ok", [i \in 1..DigestBytes |->
                    16 * val(hexdigits[2 * i - 1]) + val(hexdigits[2 * i])]>>

\* parse_composefs_cmdline, over the parts still to look at.
RECURSIVE parse_parts(_)
parse_parts(parts) ==
    IF parts = <<>> THEN <<"Err", <<>> >>
    ELSE LET digest_ == strip_prefix(Head(parts), Prefix_composefs) IN
         IF digest_[1] THEN decode_to_slice(digest_[2])
         ELSE parse_parts(Tail(parts))
parse_composefs_cmdline(cmdline_) == parse_parts(split_whitespace(cmdline_))

\* The parameters tried: a value of up to one digit too many, of hex digits
\* and one byte that is none; the words of the test; a second parameter.
ValueBytes == {"1", "F", "o"}
ValuesTried == UNION {[1..k -> ValueBytes] : k \in 0..(2 * DigestBytes + 1)}
GoodValue == [i \in 1..(2 * DigestBytes) |-> IF i % 2 = 1 THEN "a" ELSE "7"]
FirstParts ==
    {Prefix_composefs \o v : v \in ValuesTried}
    \cup {<<>>, <<"f", "o", "o">>, <<"composefs">>, <<"=", "1", "F">>,
          Prefix_composefs \o <<"f", "o", "o">>}
SecondParts == {Prefix_composefs \o GoodValue, <<"f", "o", "o">>, Prefix_composefs \o <<"o">>}
CmdParts == {<<p>> : p \in FirstParts} \cup {<<p, q>> : p \in FirstParts, q \in SecondParts}

\* The parts written out with one whitespace byte between them.
RECURSIVE JoinParts(_, _)
JoinParts(parts, w) ==
    IF Len(parts) = 1 THEN Head(parts)
    ELSE Head(parts) \o <<w>> \o JoinParts(Tail(parts), w)

CmdInit ==
    /\ cmdparts \in CmdParts
    /\ \E w \in Whitespace : cmdline = JoinParts(cmdparts, w)
    /\ parsed = <<"none", <<>> >>

\* main: /proc/cmdline is parsed once.
ParseCmdline ==
    /\ parsed[1] = "none"
    /\ parsed' = parse_composefs_cmdline(cmdline)
    /\ UNCHANGED <<cmdparts, cmdline>>
    /\ CmdFrame

CmdNext == ParseCmdline

\* ------------------------------------- Repository::symlink with any (name, target)

\* Calls of symlink made on one repository.
MaxSymlinks == 2

LinkComponents == {C("streams"), C("refs"), C("a")}
LinkNames == UNION {[1..k -> LinkComponents] : k \in 1..3}
LinkTargets == UNION {[1..k -> LinkComponents] : k \in 1..2}

SymlinkInit ==
    /\ objects = <<>> /\ links = <<>>
    /\ dirs \in {{}, {<<C("streams")>>}}
    /\ linked = [n |-> 0, name |-> <<>>, target |-> <<>>, res |-> "none"]

\* One call of Repository::symlink.
Symlink ==
    /\ linked.n < MaxSymlinks /\ linked.res # "panic"
    /\ \E name \in LinkNames, target \in LinkTargets :
         LET s == symlink(links, dirs, objects, name, target) IN
         /\ links' = s.links
         /\ dirs' = s.dirs
         /\ linked' = [n |-> linked.n + 1, name |-> name, target |-> target, res |-> s.res]
    /\ UNCHANGED objects
    /\ SymlinkFrame

SymlinkNext == Symlink

\* ------------------------------------------------ Directory: the entries Vec

\* Most entries of the one directory.
MaxDirEntries == 4

\* Names are byte strings; OsStr::cmp compares them byte by byte.
DirNames == UNION {[1..k -> {1, 2}] : k \in 1..2}
RECURSIVE cmp(_, _)
cmp(a, b) ==
    IF a = <<>> THEN (IF b = <<>> THEN "Equal" ELSE "Less")
    ELSE IF b = <<>> THEN "Greater"
    ELSE IF Head(a) < Head(b) THEN "Less"
    ELSE IF Head(a) > Head(b) THEN "Greater"
    ELSE cmp(Tail(a), Tail(b))

\* slice::binary_search_by_key over entries[left+1 .. right]: <<"Ok", index>>
\* or <<"Err", insertion index>>; indices count from 0 as in the code.
RECURSIVE binary_search(_, _, _, _)
binary_search(ents, name, left, right) ==
    IF left >= right THEN <<"Err", left>>
    ELSE LET mid == left + ((right - left) \div 2)
             c == cmp(ents[mid + 1].name, name) IN
         IF c = "Less" THEN binary_search(ents, name, mid + 1, right)
         ELSE IF c = "Greater" THEN binary_search(ents, name, left, mid)
         ELSE <<"Ok", mid>>

\* Directory::find_entry, with its fast path on the last entry.
Directory_find_entry_Append(ents, name) ==
    IF ents # <<>> /\ cmp(name, ents[Len(ents)].name) = "Equal"
    THEN <<"Ok", Len(ents) - 1>> ELSE <<"Err", Len(ents)>>
Directory_find_entry(ents, name) ==
    IF ents # <<>>
    THEN LET c == cmp(name, ents[Len(ents)].name) IN
         IF c = "Equal" THEN <<"Ok", Len(ents) - 1>>
         ELSE IF c = "Greater" THEN <<"Err", Len(ents)>>
         ELSE binary_search(ents, name, 0, Len(ents))
    ELSE <<"Err", 0>>

\* Vec::insert and Vec::remove at an index counted from 0.
Vec_insert(v, idx, e) == SubSeq(v, 1, idx) \o <<e>> \o SubSeq(v, idx + 1, Len(v))
Vec_remove(v, idx) == SubSeq(v, 1, idx) \o SubSeq(v, idx + 2, Len(v))

\* Directory::mkdir on the Vec: <<answer, entries>>.
Directory_mkdir(ents, name, stat) ==
    LET f == Directory_find_entry(ents, name) IN
    IF f[1] = "Ok"
    THEN IF ents[f[2] + 1].kind = "dir"
         THEN <<"Ok", [ents EXCEPT ![f[2] + 1].stat = stat]>>
         ELSE <<"panic", ents>>
    ELSE <<"Ok", Vec_insert(ents, f[2], [name |-> name, kind |-> "dir", stat |-> stat])>>

\* Directory::insert on the Vec.
Directory_insert(ents, name, inode) ==
    LET f == Directory_find_entry(ents, name) IN
    IF f[1] = "Ok"
    THEN [ents EXCEPT ![f[2] + 1] = [name |-> name, kind |-> inode.kind, stat |-> inode.stat]]
    ELSE Vec_insert(ents, f[2], [name |-> name, kind |-> inode.kind, stat |-> inode.stat])

\* Directory::remove on the Vec.
Directory_remove(ents, name) ==
    LET f == Directory_find_entry(ents, name) IN
    IF f[1] = "Ok" THEN Vec_remove(ents, f[2]) ELSE ents

DirInit == dent = <<>> /\ dres = "none"

DirMkdir ==
    /\ dres # "panic"
    /\ \E name \in DirNames, stat \in {1, 2} :
         LET r == Directory_mkdir(dent, name, stat) IN
         /\ Len(r[2]) <= MaxDirEntries
         /\ dent' = r[2]
         /\ dres' = r[1]
    /\ DirFrame

DirInsert ==
    /\ dres # "panic"
    /\ \E name \in DirNames, kind \in {"dir", "leaf"} :
         LET r == Directory_insert(dent, name, [kind |-> kind, stat |-> 1]) IN
         /\ Len(r) <= MaxDirEntries
         /\ dent' = r
         /\ dres' = "Ok"
    /\ DirFrame

DirRemove ==
    /\ dres # "panic"
    /\ \E name \in DirNames : dent' = Directory_remove(dent, name)
    /\ dres' = "Ok"
    /\ DirFrame

\* Directory::remove_all
DirRemoveAll ==
    /\ dres # "panic"
    /\ dent' = <<>>
    /\ dres' = "Ok"
    /\ DirFrame

DirNext == DirMkdir \/ DirInsert \/ DirRemove \/ DirRemoveAll

\* ------------------------------------- a SplitStreamReader read call after call

\* Most frames of the stream.
MaxFrames == 3

\* Inline frames of one and two bytes, external frames of two objects.
FramesTried ==
    {<<N(1), N(7)>>, <<N(2), N(8), N(9)>>,
     <<N(0), D(FsVerityHash(<<N(1)>>))>>, <<N(0), D(FsVerityHash(<<N(2)>>))>>}
FrameSeqs == UNION {[1..k -> FramesTried] : k \in 0..MaxFrames}
RECURSIVE Concat(_)
Concat(ss) == IF ss = <<>> THEN <<>> ELSE Head(ss) \o Concat(Tail(ss))

NoRead == [op |-> "none", actual |-> 0, stored |-> 0, res |-> "none", id |-> NoDigest,
           content |-> <<>>]

ReaderInit ==
    /\ rstream \in FrameSeqs
    /\ rd = [decoder |-> Concat(rstream), refs |-> <<>>, inline_bytes |-> 0, ok |-> TRUE]
    /\ rcall = NoRead
    /\ tar = <<>> /\ members = <<>> /\ tpos = 0 /\ tstate = "idle" /\ entries = <<>>

\* One call of read_inline_exact with a buffer of n bytes.
ReadInlineExact ==
    /\ rcall.res # "Err"
    /\ \E n \in 0..2 :
         LET x == read_inline_exact(rd, n) IN
         /\ rd' = x.r
         /\ rcall' = [op |-> "read_inline_exact", actual |-> n, stored |-> n, res |-> x.res,
                      id |-> NoDigest, content |-> x.buffer]
    /\ UNCHANGED <<rstream, tar, members, tpos, tstate, entries>>
    /\ ReaderFrame

\* One call of read_exact(actual_size, stored_size).
ReadExact ==
    /\ rcall.res # "Err"
    /\ \E stored_size \in 0..2 : \E actual_size \in 0..stored_size :
         LET x == read_exact(rd, actual_size, stored_size) IN
         /\ rd' = x.r
         /\ rcall' = [op |-> "read_exact", actual |-> actual_size, stored |-> stored_size,
                      res |-> x.res, id |-> x.id, content |-> x.content]
    /\ UNCHANGED <<rstream, tar, members, tpos, tstate, entries>>
    /\ ReaderFrame

ReaderNext == ReadInlineExact \/ ReadExact

\* ------------------------------------- ImageOp::ensure_layer: the fetch of a blob

\* Largest layer blob, in bytes, and the bytes the pipe between the proxy and
\* the reader holds before a write of the proxy blocks.
MaxBlob == 5
PipeCap == 2

\* The other order: the driver awaited before the blob is consumed.
ensure_layer_DriverFirst == <<"driver", "split_async", "write_stream">>

\* The awaits of ensure_layer after get_descriptor, in the order of its body:
\* split_async(decoder, ..).await?, write_stream(splitstream, None)?,
\* driver.await?.
ensure_layer == <<"split_async", "write_stream", "driver">>

StepIndex(s) == CHOOSE i \in 1..Len(ensure_layer) : ensure_layer[i] = s
InBody == fpc \in {ensure_layer[i] : i \in 1..Len(ensure_layer)}
AfterStep(s) ==
    IF StepIndex(s) = Len(ensure_layer) THEN "Ok" ELSE ensure_layer[StepIndex(s) + 1]

\* The read end of the pipe lives in the decoder, which split_async takes by
\* value: it is open until split_async returns or ensure_layer does.
ReaderOpen == InBody /\ StepIndex(fpc) <= StepIndex("split_async")

FetchInit ==
    /\ fpc = "check_stream"
    /\ blob \in 0..MaxBlob
    /\ sent = 0 /\ pipe = 0 /\ nread = 0
    /\ fstored \in BOOLEAN

\* if let Some(layer_id) = self.repo.check_stream(layer_sha256)? { Ok(layer_id) }
CheckStream ==
    /\ fpc = "check_stream"
    /\ fpc' = IF fstored THEN "Ok" ELSE "get_descriptor"
    /\ UNCHANGED <<blob, sent, pipe, nread, fstored>>

\* let (blob_reader, driver) = self.proxy.get_descriptor(..).await?;
GetDescriptor ==
    /\ fpc = "get_descriptor"
    /\ fpc' \in {ensure_layer[1], "Err"}
    /\ UNCHANGED <<blob, sent, pipe, nread, fstored>>

\* The proxy, a process of its own, writes the next byte of the blob into the
\* pipe when the pipe has room and its read end is open.
ProxyWrite ==
    /\ ReaderOpen /\ sent < blob /\ pipe < PipeCap
    /\ sent' = sent + 1 /\ pipe' = pipe + 1
    /\ UNCHANGED <<fpc, blob, nread, fstored>>

\* split_async reads a byte of the blob through the decoder.
SplitRead ==
    /\ fpc = "split_async" /\ pipe > 0
    /\ pipe' = pipe - 1 /\ nread' = nread + 1
    /\ UNCHANGED <<fpc, blob, sent, fstored>>

\* read_header_async finds the end of the input: split_async returns Ok(()).
SplitEof ==
    /\ fpc = "split_async" /\ pipe = 0 /\ sent = blob
    /\ fpc' = AfterStep("split_async")
    /\ UNCHANGED <<blob, sent, pipe, nread, fstored>>

\* split_async(..).await? on input that is no gzip or no tar: ensure_layer
\* returns the error, and the driver is dropped.
SplitErr ==
    /\ fpc = "split_async"
    /\ fpc' = "Err"
    /\ UNCHANGED <<blob, sent, pipe, nread, fstored>>

\* let layer_id = self.repo.write_stream(splitstream, None)?;
WriteStream ==
    /\ fpc = "write_stream"
    /\ \/ fstored' = TRUE /\ fpc' = AfterStep("write_stream")
       \/ fstored' = fstored /\ fpc' = "Err"
    /\ UNCHANGED <<blob, sent, pipe, nread>>

\* driver.await?: the driver resolves when the proxy has written the whole blob.
DriverAwait ==
    /\ fpc = "driver" /\ sent = blob
    /\ fpc' \in {AfterStep("driver"), "Err"}
    /\ UNCHANGED <<blob, sent, pipe, nread, fstored>>

FetchNext ==
    \/ CheckStream /\ FetchFrame
    \/ GetDescriptor /\ FetchFrame
    \/ ProxyWrite /\ FetchFrame
    \/ SplitRead /\ FetchFrame
    \/ SplitEof /\ FetchFrame
    \/ SplitErr /\ FetchFrame
    \/ WriteStream /\ FetchFrame
    \/ DriverAwait /\ FetchFrame

\* ------------------------------------- ImageOp::ensure_config: the pull of an image

\* Most layers of a manifest and most diff_ids of a config.
MaxLayers == 2
\* The content hashes a config lists, and the descriptors of a manifest.
DiffIds == {"a", "b"}
ManifestLayers == <<"m1", "m2", "m3">>
ConfigName == "config"

\* The object a layer stream written by write_stream is stored as, and an
\* object some earlier pull stored the same layer as.
StreamObject(d) == FsVerityHash(<<d>>)
OtherObject(d) == FsVerityHash(<<d, "split otherwise">>)

\* std::iter::zip: pairs up to the end of the shorter sequence.
zip(s, t) ==
    [i \in 1..(IF Len(s) < Len(t) THEN Len(s) ELSE Len(t)) |-> <<s[i], t[i]>>]

LayerPairs == zip(pimage.layers, pimage.diff_ids)

PullInit ==
    /\ ppc = <<"check_stream", 0>>
    /\ \E n \in 0..MaxLayers, k \in 0..MaxLayers :
         \E ids \in [1..k -> DiffIds] :
            pimage = [layers |-> SubSeq(ManifestLayers, 1, n), diff_ids |-> ids]
    /\ \E have \in SUBSET DiffIds :
         \E obj \in [have -> {"same", "other"}] :
            pstreams = [d \in have |->
                          [id |-> IF obj[d] = "same" THEN StreamObject(d) ELSE OtherObject(d),
                           map |-> <<>>]]
    /\ config_maps = <<>>

\* check_stream(&config_sha256) finds no stream; fetch_config_raw and
\* from_reader give the config, or fail.
EnsureConfigStart ==
    /\ ppc = <<"check_stream", 0>>
    /\ ConfigName \notin DOMAIN pstreams
    /\ ppc' \in {<<"layer", 1>>, <<"Err", 0>>}
    /\ UNCHANGED <<pimage, pstreams, config_maps>>

\* One turn of the loop over zip(manifest_layers, diff_ids): ensure_layer
\* answers with the stream it found or with the one it fetched and stored, or
\* fails; on Ok the pair goes into config_maps.
EnsureConfigLayer ==
    /\ ppc[1] = "layer" /\ ppc[2] <= Len(LayerPairs)
    /\ LET d == LayerPairs[ppc[2]][2] IN
         IF d \in DOMAIN pstreams
         THEN /\ config_maps' = [x \in DOMAIN config_maps \cup {d} |->
                                   IF x = d THEN pstreams[d].id ELSE config_maps[x]]
              /\ ppc' = <<"layer", ppc[2] + 1>>
              /\ UNCHANGED pstreams
         ELSE \/ /\ pstreams' = [x \in DOMAIN pstreams \cup {d} |->
                                   IF x = d THEN [id |-> StreamObject(d), map |-> <<>>]
                                   ELSE pstreams[x]]
                 /\ config_maps' = [x \in DOMAIN config_maps \cup {d} |->
                                      IF x = d THEN StreamObject(d) ELSE config_maps[x]]
                 /\ ppc' = <<"layer", ppc[2] + 1>>
              \/ /\ ppc' = <<"Err", 0>>
                 /\ UNCHANGED <<pstreams, config_maps>>
    /\ UNCHANGED pimage

\* After the loop: create_stream(Some(config_sha256), Some(config_maps)),
\* write_inline(&raw_config) and write_stream, which may fail.
EnsureConfigWrite ==
    /\ ppc[1] = "layer" /\ ppc[2] = Len(LayerPairs) + 1
    /\ \/ /\ pstreams' = [x \in DOMAIN pstreams \cup {ConfigName} |->
                            IF x = ConfigName
                            THEN [id |-> StreamObject(ConfigName), map |-> config_maps]
                            ELSE pstreams[x]]
          /\ ppc' = <<"Ok", 0>>
       \/ /\ ppc' = <<"Err", 0>>
          /\ UNCHANGED pstreams
    /\ UNCHANGED <<pimage, config_maps>>

\* The future of the pull is dropped between two of its steps.
PullAbandon ==
    /\ ppc[1] \in {"check_stream", "layer"}
    /\ ppc' = <<"abandoned", 0>>
    /\ UNCHANGED <<pimage, pstreams, config_maps>>

PullNext ==
    \/ EnsureConfigStart /\ PullFrame
    \/ EnsureConfigLayer /\ PullFrame
    \/ EnsureConfigWrite /\ PullFrame
    \/ PullAbandon /\ PullFrame

\* ---------------------------------------------------------- specifications

vars == <<objects, dirs, pc, data, digest, tmp, again, returned, linkres, faulted,
          links, opened, sw, logical, ncalls, swres,
          tar, members, tpos, tstate, rd, entries,
          gc_res, gc_objects, gc_rm,
          handles, flocks, gcret, call, fsys, applied, dumpfile,
          cmdparts, cmdline, parsed,
          linked,
          dent, dres,
          rstream, rcall,
          fpc, blob, sent, pipe, nread, fstored,
          ppc, pimage, pstreams, config_maps>>

RefsIdle == call = <<>>
TreeIdle == fsys = <<>> /\ applied = <<>> /\ dumpfile = <<>>
LinkIdle == linked = <<>>
DirIdle == dent = <<>> /\ dres = <<>>
ReadIdle == rstream = <<>> /\ rcall = <<>>
FetchIdle == fpc = <<>> /\ blob = <<>> /\ sent = <<>> /\ pipe = <<>> /\ nread = <<>> /\ fstored = <<>>
PullIdle == ppc = <<>> /\ pimage = <<>> /\ pstreams = <<>> /\ config_maps = <<>>
CmdIdle == cmdparts = <<>> /\ cmdline = <<>> /\ parsed = <<>>

LockIdle == handles = <<>> /\ flocks = <<>> /\ gcret = <<>>

GcIdle == gc_res = "none" /\ gc_objects = {} /\ gc_rm = {}

TarIdle ==
    /\ tar = <<>> /\ members = <<>> /\ tpos = 0 /\ tstate = "idle"
    /\ rd = BadReader /\ entries = <<>>

StreamIdle ==
    /\ sw = NoWriter /\ logical = <<>> /\ ncalls = 0 /\ swres = <<"none", <<>> >>

ProcIdle ==
    /\ pc = [p \in Procs |-> "idle"]
    /\ data = [p \in Procs |-> <<>>]
    /\ digest = [p \in Procs |-> NoDigest]
    /\ tmp = [p \in Procs |-> NoFile]
    /\ again = [p \in Procs |-> FALSE]
    /\ returned = [p \in Procs |-> <<>>]
    /\ linkres = [p \in Procs |-> "none"]
    /\ faulted = [p \in Procs |-> FALSE]

\* Concurrent ensure_object callers on one repository.
InitObject == ObjInit /\ links = <<>> /\ opened = NoOpen /\ StreamIdle /\ TarIdle /\ GcIdle /\ LockIdle /\ RefsIdle /\ TreeIdle /\ CmdIdle
    /\ LinkIdle
    /\ DirIdle
    /\ ReadIdle
    /\ FetchIdle
    /\ PullIdle
Spec == InitObject /\ [][ObjNext]_vars

\* Verified opens on a repository whose files may have been replaced.
InitOpen == OpenInit /\ ProcIdle /\ StreamIdle /\ TarIdle /\ GcIdle /\ LockIdle /\ RefsIdle /\ TreeIdle /\ CmdIdle
    /\ LinkIdle
    /\ DirIdle
    /\ ReadIdle
    /\ FetchIdle
    /\ PullIdle
SpecOpen == InitOpen /\ [][OpenNext]_vars

\* One SplitStreamWriter fed call after call, then done().
InitStream == StreamInit /\ ProcIdle /\ opened = NoOpen /\ TarIdle /\ GcIdle /\ LockIdle /\ RefsIdle /\ TreeIdle /\ CmdIdle
    /\ LinkIdle
    /\ DirIdle
    /\ ReadIdle
    /\ FetchIdle
    /\ PullIdle
SpecStream == InitStream /\ [][StreamNext]_vars

\* oci::import_layer of one archive, then the get_entry loop over the stream.
InitTar == TarInit /\ ProcIdle /\ opened = NoOpen /\ ncalls = 0 /\ GcIdle /\ LockIdle /\ RefsIdle /\ TreeIdle /\ CmdIdle
    /\ LinkIdle
    /\ DirIdle
    /\ ReadIdle
    /\ FetchIdle
    /\ PullIdle
SpecTar == InitTar /\ [][TarNext]_vars

\* A repository built by ensure_object, ensure_stream and write_image, then gc.
InitGc == GcInit /\ ProcIdle /\ opened = NoOpen /\ StreamIdle /\ TarIdle /\ LockIdle /\ RefsIdle /\ TreeIdle /\ CmdIdle
    /\ LinkIdle
    /\ DirIdle
    /\ ReadIdle
    /\ FetchIdle
    /\ PullIdle
SpecGc == InitGc /\ [][GcNext]_vars

\* Handles opened, used, running gc and dropped on one repository.
InitLock == LockInit /\ ProcIdle /\ opened = NoOpen /\ StreamIdle /\ TarIdle /\ GcIdle /\ RefsIdle /\ TreeIdle /\ CmdIdle
    /\ LinkIdle
    /\ DirIdle
    /\ ReadIdle
    /\ FetchIdle
    /\ PullIdle
SpecLock == InitLock /\ [][LockNext]_vars

\* Streams and images stored and named, call after call.
InitRefs ==
    RefsInit /\ ProcIdle /\ opened = NoOpen /\ StreamIdle /\ TarIdle /\ GcIdle /\ LockIdle
    /\ TreeIdle /\ CmdIdle
    /\ LinkIdle
    /\ DirIdle
    /\ ReadIdle
    /\ FetchIdle
    /\ PullIdle
SpecRefs == InitRefs /\ [][RefsNext]_vars

\* The entries of layers applied to a tree, one after the other.
InitTree ==
    /\ TreeInit /\ objects = <<>> /\ dirs = {} /\ links = <<>>
    /\ ProcIdle /\ opened = NoOpen /\ StreamIdle /\ TarIdle /\ GcIdle /\ LockIdle /\ RefsIdle
    /\ CmdIdle
    /\ LinkIdle
    /\ DirIdle
    /\ ReadIdle
    /\ FetchIdle
    /\ PullIdle
SpecTree == InitTree /\ [][TreeNext]_vars

\* A command line is parsed.
InitCmdline ==
    /\ CmdInit /\ objects = <<>> /\ dirs = {} /\ links = <<>>
    /\ ProcIdle /\ opened = NoOpen /\ StreamIdle /\ TarIdle /\ GcIdle /\ LockIdle /\ RefsIdle
    /\ TreeIdle
    /\ LinkIdle
    /\ DirIdle
    /\ ReadIdle
    /\ FetchIdle
    /\ PullIdle
SpecCmdline == InitCmdline /\ [][CmdNext]_vars

\* Repository::symlink is called with any name and target.
InitSymlink ==
    /\ SymlinkInit /\ ProcIdle /\ opened = NoOpen /\ StreamIdle /\ TarIdle /\ GcIdle /\ LockIdle
    /\ RefsIdle /\ TreeIdle /\ CmdIdle
    /\ DirIdle
    /\ ReadIdle
    /\ FetchIdle
    /\ PullIdle
SpecSymlink == InitSymlink /\ [][SymlinkNext]_vars

\* Calls on one Directory that starts empty.
InitDir ==
    /\ DirInit /\ objects = <<>> /\ dirs = {} /\ links = <<>>
    /\ ProcIdle /\ opened = NoOpen /\ StreamIdle /\ TarIdle /\ GcIdle /\ LockIdle
    /\ RefsIdle /\ TreeIdle /\ CmdIdle /\ LinkIdle
    /\ ReadIdle
    /\ FetchIdle
    /\ PullIdle
SpecDir == InitDir /\ [][DirNext]_vars

\* A reader over any stream of frames, read call after call.
InitReader ==
    /\ ReaderInit /\ objects = <<>> /\ dirs = {} /\ links = <<>>
    /\ ProcIdle /\ opened = NoOpen /\ StreamIdle /\ GcIdle /\ LockIdle
    /\ RefsIdle /\ TreeIdle /\ CmdIdle /\ LinkIdle /\ DirIdle
    /\ FetchIdle
    /\ PullIdle
SpecReader == InitReader /\ [][ReaderNext]_vars

\* The executor polls a task that can go on, and the proxy runs by itself; no
\* step that fails has to happen.
FetchFairness ==
    /\ WF_vars(CheckStream /\ FetchFrame)
    /\ WF_vars(GetDescriptor /\ FetchFrame)
    /\ WF_vars(ProxyWrite /\ FetchFrame)
    /\ WF_vars(SplitRead /\ FetchFrame)
    /\ WF_vars(SplitEof /\ FetchFrame)
    /\ WF_vars(WriteStream /\ FetchFrame)
    /\ WF_vars(DriverAwait /\ FetchFrame)

\* The fetch of one layer blob by ensure_layer, and the same with the
\* scheduling that lets every task that can go on go on.
InitFetch ==
    /\ FetchInit /\ objects = <<>> /\ dirs = {} /\ links = <<>>
    /\ ProcIdle /\ opened = NoOpen /\ StreamIdle /\ TarIdle /\ GcIdle /\ LockIdle
    /\ RefsIdle /\ TreeIdle /\ CmdIdle /\ LinkIdle /\ DirIdle /\ ReadIdle
    /\ PullIdle
SpecFetch == InitFetch /\ [][FetchNext]_vars
SpecFetchLive == InitFetch /\ [][FetchNext]_vars /\ FetchFairness

\* The pull of one image into a repository that holds some of its layers.
InitPull ==
    /\ PullInit /\ objects = <<>> /\ dirs = {} /\ links = <<>>
    /\ ProcIdle /\ opened = NoOpen /\ StreamIdle /\ TarIdle /\ GcIdle /\ LockIdle
    /\ RefsIdle /\ TreeIdle /\ CmdIdle /\ LinkIdle /\ DirIdle /\ ReadIdle /\ FetchIdle
SpecPull == InitPull /\ [][PullNext]_vars

\* ------------------------------------------------------------------ claims

FilesFor(d) == {path \in DOMAIN objects : parse_object_path(path) = d}

C1_AfterSecondCall ==
    \A p \in Procs :
        (again[p] /\ pc[p] = "done") =>
            /\ Len(returned[p]) = 2
            /\ returned[p][1] = returned[p][2]
            /\ returned[p][2] = <<"Ok", FsVerityHash(data[p])>>
            /\ Cardinality(FilesFor(returned[p][2][2])) = 1

C1_SecondCallStep ==
    \A p \in Procs :
        (again[p] /\ pc'[p] # pc[p]) =>
            /\ objects' = objects
            /\ dirs' = dirs
            /\ tmp'[p] = NoFile

\* C1: ensure_object(B) called twice returns the same digest both times,
\* exactly one file exists under objects/ for that digest after the second
\* call, and no step of the second call creates or changes a file (neither
\* an object, nor a directory, nor a temporary file).
C1_EnsureObjectTwice == []C1_AfterSecondCall /\ [][C1_SecondCallStep]_vars

C1_Witness ==
    \E p \in Procs :
        /\ again[p] /\ pc[p] = "done" /\ Len(returned[p]) = 2
        /\ linkres[p] = "linked"

\* C2: under every interleaving of the steps of concurrent ensure_object
\* calls, every caller that the environment did not fail returns Ok with the
\* digest of its bytes (so callers of identical bytes return the same
\* digest), a caller never stops for another reason than an environment
\* fault, a caller about to write has its directory, and once a caller has
\* returned exactly one objects/XX/YY file exists for its digest: a linkat
\* that finds the target existing is success.
C2_RacingWriters ==
    /\ \A p \in Procs :
          /\ \A i \in 1..Len(returned[p]) : returned[p][i] = <<"Ok", FsVerityHash(data[p])>>
          /\ pc[p] = "done" =>
                /\ Len(returned[p]) >= 1
                /\ Cardinality(FilesFor(FsVerityHash(data[p]))) = 1
          /\ pc[p] \in {"panicked", "abandoned"} => faulted[p]
          /\ pc[p] = "write" => ObjectDir(digest[p]) \in dirs
    /\ \A p, q \in Procs :
          (data[p] = data[q] /\ pc[p] = "done" /\ pc[q] = "done") =>
              returned[p][1] = returned[q][1]

C2_Witness ==
    \E p, q \in Procs :
        /\ p # q /\ data[p] = data[q]
        /\ pc[p] = "done" /\ pc[q] = "done"
        /\ linkres[p] = "linked" /\ linkres[q] = "exists"

\* C3: in every reachable state, whatever the interleaving and wherever an
\* ingestion was abandoned, every file under objects/ has fsverity enabled,
\* measures to the digest its path encodes and holds the whole payload of
\* every caller that returned that digest; and a caller that has reached the
\* link step holds a temporary file that was written in full, has verity
\* enabled and was measured equal to the digest.
C3_ObjectsVerified ==
    /\ \A path \in DOMAIN objects :
          /\ objects[path].verity
          /\ fs_ioc_measure_verity(objects[path]) = parse_object_path(path)
          /\ path = format_object_path(parse_object_path(path))
    /\ \A p \in Procs :
          /\ pc[p] = "done" =>
                /\ format_object_path(digest[p]) \in DOMAIN objects
                /\ objects[format_object_path(digest[p])].content = data[p]
          /\ pc[p] = "link" =>
                /\ tmp[p].open /\ tmp[p].verity
                /\ tmp[p].content = data[p]
                /\ fs_ioc_measure_verity(tmp[p]) = digest[p]

C3_Witness ==
    \E p, q \in Procs :
        /\ pc[p] = "panicked" /\ data[p] # <<>>
        /\ linkres[q] = "linked" /\ pc[q] = "done" /\ data[q] # <<>>

C5_CatIsLogical ==
    swres[1] = "Ok" => cat_object(objects, swres[2]) = <<"Ok", logical>>

\* C6: for a writer created with a claimed content hash, done() succeeds
\* exactly when the SHA-256 of the logical bytes written (every inline
\* payload, every external payload and its padding, in call order) is the
\* claim; when done() fails the stream's own object is not in the store.
C6_DoneChecksHash ==
    (swres[1] # "none" /\ sw.expected # NoDigest) =>
        /\ swres[1] \in {"Ok", "Err"}
        /\ swres[1] = "Ok" <=> Sha256Hash(logical) = sw.expected
        /\ swres[1] = "Ok" =>
              /\ swres[2] = FsVerityHash(zstd_finish(flush_inline(sw, <<>>).writer))
              /\ format_object_path(swres[2]) \in DOMAIN objects
        /\ swres[1] = "Err" =>
              format_object_path(FsVerityHash(zstd_finish(flush_inline(sw, <<>>).writer)))
                  \notin DOMAIN objects

C6_Witness ==
    /\ swres[1] = "Err" /\ sw.expected # NoDigest
    /\ objects # <<>> /\ Len(logical) >= 2

\* The frames of a decoded stream body laid flat: inline bytes as they are,
\* each external reference as the one unit D(id).
RECURSIVE FramesFlat(_)
FramesFlat(units) ==
    IF units = <<>> THEN <<>>
    ELSE IF Head(units)[2] = 0
         THEN <<units[2]>> \o FramesFlat(SubSeq(units, 3, Len(units)))
         ELSE SubSeq(units, 2, 1 + Head(units)[2])
              \o FramesFlat(SubSeq(units, 2 + Head(units)[2], Len(units)))

\* The archive with every non-empty regular payload replaced by the
\* fs-verity digest of the payload.
RECURSIVE TarSkeleton(_, _)
TarSkeleton(ms, rest) ==
    IF ms = <<>> THEN rest
    ELSE LET m == Head(ms) IN
         HeaderOf(m)
         \o (IF m.type = Regular /\ m.size > 0
             THEN <<D(FsVerityHash(PayloadOf(m)))>> ELSE PayloadOf(m))
         \o Zeros(StorageSize(m.size) - m.size)
         \o TarSkeleton(Tail(ms), rest)

TrailingZeros == SubSeq(tar, Len(TarBytes(members, 0)) + 1, Len(tar))

\* C7: for a well-formed tar stream T, split succeeds, cat over the stream
\* it produced outputs exactly T, and in the stream every non-empty regular
\* payload is one external reference carrying the fs-verity digest of the
\* payload, its padding following the reference inline.
C7_TarSplitRoundTrip ==
    tstate \notin {"idle", "split"} =>
        /\ swres[1] = "Ok"
        /\ cat_object(objects, swres[2]) = <<"Ok", tar>>
        /\ LET fd == open_object(objects, swres[2])
               r == NewReader(objects[fd[2]].content) IN
             /\ fd[1] = "fd" /\ r.ok
             /\ FramesFlat(r.decoder) = TarSkeleton(members, TrailingZeros)

C7_Witness ==
    /\ tstate = "stored"
    /\ Len(members) = 2
    /\ members[1].type = Regular /\ members[1].size = BlockSize + 1
    /\ members[2].type = Regular /\ members[2].size = 1
    /\ cat_object(objects, swres[2]) = <<"Ok", tar>>

\* What the claim expects get_entry to answer for a regular member.
ExpectedEntry(m) ==
    IF m.size > 0
    THEN Entry(HeaderOf(m), <<>>, "ExternalFile", m.size, FsVerityHash(PayloadOf(m)), <<>>)
    ELSE Entry(HeaderOf(m), <<>>, "InlineFile", 0, NoDigest, <<>>)

\* C8: over a stream made by split from an archive of regular files,
\* repeated get_entry calls yield one entry per member in archive order
\* (path, size, stat fields, and the fs-verity digest of a non-empty
\* payload) and then None, also when the archive has no end-of-archive
\* zero records.
C8_GetEntryYieldsMembers ==
    (tstate = "listed" /\ \A i \in DOMAIN members : members[i].type = Regular) =>
        entries = [i \in 1..Len(members) |-> ExpectedEntry(members[i])] \o <<NoEntry>>

\* The names under <category>/refs/ and the object file each leads to.
NamedRefs(category) ==
    {p \in DOMAIN links : Len(p) > 2 /\ SubSeq(p, 1, 2) = <<C(category), C("refs")>>}
NamedObjects(category) ==
    {Resolve(links, p, 3) : p \in NamedRefs(category)} \cap DOMAIN objects

\* What a stored stream or image refers to.
StreamRefsOf(path) == get_object_refs(NewReader(objects[path].content))[2]
ImageRefsOf(path) == composefs_info_objects(objects[path].content)

\* The reachable set: the objects the refs/ names lead to and everything
\* those streams and images refer to.
ReachableSet ==
    {p[3][2] : p \in NamedObjects("images") \cup NamedObjects("streams")}
    \cup UNION {ImageRefsOf(p) : p \in NamedObjects("images")}
    \cup UNION {StreamRefsOf(p) : p \in NamedObjects("streams")}

\* The images/<hex> and streams/<hex> links no refs/ name leads through.
Unreferenced(category) ==
    {p \in DOMAIN links : Len(p) = 2 /\ p[1] = C(category)}
    \ {Walk(Parent(r), links[r]) : r \in NamedRefs(category)}

\* C9: after gc has returned, every file left under objects/ is in the
\* reachable set computed before it ran, and every images/<hex> or
\* streams/<hex> link not referenced from a refs/ name is gone.  (gc leaves
\* the repository as it found it, so the state before is the state after.)
C9_GcSweeps ==
    gc_res = "Ok" =>
        /\ \A p \in DOMAIN objects : p[3][2] \in ReachableSet
        /\ Unreferenced("images") = {} /\ Unreferenced("streams") = {}

\* C10: once gc has marked, for every name under streams/refs/ and
\* images/refs/ the set of live objects holds the fs-verity digest of the
\* object the name resolves to and everything that stream or image refers
\* to, so that the object of a named stream is not listed for removal.
C10_GcMarksNamed ==
    gc_res = "Ok" =>
        /\ \A p \in NamedObjects("images") :
              /\ p[3][2] \in gc_objects /\ ImageRefsOf(p) \subseteq gc_objects
              /\ p \notin gc_rm
        /\ \A p \in NamedObjects("streams") :
              /\ p[3][2] \in gc_objects /\ StreamRefsOf(p) \subseteq gc_objects
              /\ p \notin gc_rm

C12_GcGivesLockBack ==
    \A h \in Handles :
        /\ handles[h] = "gc_walk" => flocks[h] = "exclusive"
        /\ (gcret[h] # "none" /\ handles[h] = "open") => flocks[h] = "shared"

CallSha == Sha256Hash(LayerBytes(call'.k))
CallCategory == IF call'.op = "write_image" THEN "images" ELSE "streams"

\* C13: when streams/<hex(sha256)> exists, ensure_stream answers the digest
\* its link target spells, does not run the callback (no object the
\* callback would store appears), creates or changes no object and leaves
\* streams/<hex> as it is; all it may add is streams/refs/<name>.
C13_Step ==
    (call'.op = "ensure_stream" /\ StreamPath(CallSha) \in DOMAIN links) =>
        /\ call'.res = "Ok" => call'.id = parse_object_path(Tail(links[StreamPath(CallSha)]))
        /\ objects' = objects
        /\ \A p \in DOMAIN links : p \in DOMAIN links' /\ links'[p] = links[p]
        /\ DOMAIN links' \subseteq DOMAIN links \cup {RefPath("streams", call'.name)}
C13_EnsureStreamExisting == [][C13_Step]_vars

C13_Witness ==
    /\ call.op = "ensure_stream" /\ call.res = "Ok" /\ call.name = <<"a">> /\ call.n = 2
    /\ RefPath("streams", <<"a">>) \in DOMAIN links
    /\ format_object_path(FsVerityHash(Payload(call.k))) \notin DOMAIN objects

\* C14: attaching a name that is in use (by ensure_stream, write_stream,
\* name_stream or write_image) fails with EEXIST and leaves the existing
\* refs/<name> link as it is, its text unchanged and, when it led to an
\* object, leading to the same object still.  A call of ensure_stream whose
\* build fails returns before it attaches the name.
BuildFails ==
    /\ call'.op = "ensure_stream" /\ call'.cb \in FailingCallbacks(call'.k)
    /\ has_stream(links, Sha256Hash(LayerBytes(call'.k)))[1] = "None"
C14_Step ==
    (/\ call'.name # <<>> /\ RefPath(CallCategory, call'.name) \in DOMAIN links
     /\ ~BuildFails) =>
        LET p == RefPath(CallCategory, call'.name) IN
        /\ call'.res = "EEXIST"
        /\ p \in DOMAIN links' /\ links'[p] = links[p]
        /\ Resolve(links, p, 3) \in DOMAIN objects =>
              /\ Resolve(links', p, 3) = Resolve(links, p, 3)
              /\ objects'[Resolve(links, p, 3)] = objects[Resolve(links, p, 3)]
C14_NameInUse == [][C14_Step]_vars

C14_Witness ==
    /\ call.res = "EEXIST" /\ call.op = "name_stream"
    /\ Resolve(links, RefPath("streams", call.name), 3) \in DOMAIN objects
    /\ Resolve(links, RefPath("streams", call.name), 3)
         # Resolve(links, StreamPath(Sha256Hash(LayerBytes(call.k))), 3)

\* The entry applied by the step, its parent directory and its file name.
AppliedDir == Parent(applied'.entry.path)
AppliedName == applied'.entry.path[Len(applied'.entry.path)]
AppliedAt(dir) == dir \in DOMAIN fsys.tree /\ fsys.tree[dir].kind = "dir"
NoWhiteoutEntry(t) == \A q \in DOMAIN t : q # <<>> => Head(q[Len(q)]) # Wh
OutsideSame(S) ==
    \A q \in (DOMAIN fsys.tree \cup DOMAIN fsys'.tree) \ S :
        q \in DOMAIN fsys.tree /\ q \in DOMAIN fsys'.tree /\ fsys'.tree[q] = fsys.tree[q]

\* C15: applying an entry D/.wh..wh..opq, for an existing directory D,
\* removes every child of D, keeps D with its stat, adds no entry whose
\* name starts with .wh., and leaves every directory outside D unchanged.
C15_Step ==
    (/\ applied'.n = applied.n + 1
     /\ applied'.entry.path # <<>>
     /\ AppliedName = <<Wh>> \o OpaqueRest_Spec
     /\ AppliedAt(AppliedDir)) =>
        /\ applied'.res = "Ok"
        /\ Below(fsys'.tree, AppliedDir) = {}
        /\ AppliedDir \in DOMAIN fsys'.tree /\ fsys'.tree[AppliedDir] = fsys.tree[AppliedDir]
        /\ NoWhiteoutEntry(fsys'.tree)
        /\ OutsideSame(Under(fsys.tree, AppliedDir))
C15_OpaqueWhiteoutClears == [][C15_Step]_vars

\* C16: applying an entry whose last component is .wh.<name>, <name> not
\* the opaque marker, removes <name> (a leaf, or a directory with its
\* subtree) from the parent, changes nothing when <name> is absent,
\* inserts no entry named .wh.<name>, and leaves siblings and every other
\* directory as they were, whatever the type of the entry.
C16_Step ==
    (/\ applied'.n = applied.n + 1
     /\ applied'.entry.path # <<>>
     /\ Head(AppliedName) = Wh
     /\ Tail(AppliedName) \notin {OpaqueRest, OpaqueRest_Spec}
     /\ AppliedAt(AppliedDir)) =>
        LET gone == Append(AppliedDir, Tail(AppliedName)) IN
        /\ applied'.res = "Ok"
        /\ Under(fsys'.tree, gone) = {}
        /\ gone \notin DOMAIN fsys.tree => fsys' = fsys
        /\ NoWhiteoutEntry(fsys'.tree)
        /\ OutsideSame(Under(fsys.tree, gone))
C17_InlineThreshold ==
    /\ tstate \in {"stored", "listing", "listed"} =>
          \A i \in DOMAIN members :
              (members[i].type = Regular /\ members[i].size \in 1..INLINE_CONTENT_MAX) =>
                  format_object_path(FsVerityHash(PayloadOf(members[i]))) \notin DOMAIN objects
    /\ \A i \in DOMAIN entries :
          (entries[i].kind = "Entry" /\ entries[i].item \in {"InlineFile", "ExternalFile"}) =>
              (entries[i].item = "ExternalFile" <=> entries[i].size > INLINE_CONTENT_MAX)

\* The parameters that start with composefs=, and the digits as numbers.
IsParam(part) == Len(part) >= 2 /\ part[1] = "composefs" /\ part[2] = "="
DigitValue ==
    ("0" :> 0) @@ ("1" :> 1) @@ ("2" :> 2) @@ ("3" :> 3) @@ ("4" :> 4) @@ ("5" :> 5)
    @@ ("6" :> 6) @@ ("7" :> 7) @@ ("8" :> 8) @@ ("9" :> 9)
    @@ ("a" :> 10) @@ ("b" :> 11) @@ ("c" :> 12) @@ ("d" :> 13) @@ ("e" :> 14) @@ ("f" :> 15)
    @@ ("A" :> 10) @@ ("B" :> 11) @@ ("C" :> 12) @@ ("D" :> 13) @@ ("E" :> 14) @@ ("F" :> 15)
WellFormedValue(v) == Len(v) = 2 * DigestBytes /\ \A i \in DOMAIN v : v[i] \in DOMAIN DigitValue
DecodedValue(v) == [i \in 1..DigestBytes |-> 16 * DigitValue[v[2 * i - 1]] + DigitValue[v[2 * i]]]

\* C18: parse_composefs_cmdline splits the command line on ASCII whitespace
\* and returns the decoded value of the first parameter starting with
\* composefs= when what follows is exactly the digest's count of hex digits;
\* it returns an error when no parameter has the prefix or when the first
\* such parameter is malformed, and never a value for a malformed one.
C18_ParseCmdline ==
    parsed[1] # "none" =>
        LET params == {i \in DOMAIN cmdparts : IsParam(cmdparts[i])} IN
        IF params = {} THEN parsed[1] = "Err"
        ELSE LET first == CHOOSE i \in params : \A j \in params : i <= j
                 v == SubSeq(cmdparts[first], 3, Len(cmdparts[first])) IN
             IF WellFormedValue(v) THEN parsed = <<"Ok", DecodedValue(v)>>
             ELSE parsed[1] = "Err"
\* The value of the second parameter was returned, after a word without
\* the prefix.
C18_Witness ==
    /\ parsed[1] = "Ok" /\ Len(cmdparts) = 2
    /\ cmdparts[1] = <<"f", "o", "o">>
    /\ parsed[2] = [i \in 1..DigestBytes |-> 167]

\* The directory entries that refer to a leaf.
EntriesTo(id) == {q \in DOMAIN fsys.tree : fsys.tree[q].kind = "leaf" /\ fsys.tree[q].leaf = id}
LinesOf(kind) == {i \in DOMAIN dumpfile : dumpfile[i].kind = kind}

\* C19: for every directory of the tree, the root included, the nlink of
\* its line in the dumpfile is 2 plus the number of its direct children
\* that are directories; leaves and grandchildren do not count.
C19_DirectoryNlink ==
    dumpfile # <<>> =>
        /\ \A p \in DOMAIN fsys.tree :
              fsys.tree[p].kind = "dir" =>
                  Cardinality({i \in LinesOf("dir") : dumpfile[i].path = p}) = 1
        /\ \A i \in LinesOf("dir") :
              LET p == dumpfile[i].path IN
              dumpfile[i].nlink =
                  2 + Cardinality({q \in DOMAIN fsys.tree :
                                     /\ Len(q) = Len(p) + 1 /\ SubSeq(q, 1, Len(p)) = p
                                     /\ fsys.tree[q].kind = "dir"})
\* The root's line says 3: the root holds a leaf and a directory that has
\* a directory and a leaf of its own.
C19_Witness ==
    /\ dumpfile # <<>> /\ dumpfile[1].path = <<>> /\ dumpfile[1].nlink = 3
    /\ Cardinality(DOMAIN fsys.tree) = 5
    /\ \E p \in DOMAIN fsys.tree : Len(p) = 2 /\ fsys.tree[p].kind = "dir"
    /\ \E p \in DOMAIN fsys.tree : Len(p) = 1 /\ fsys.tree[p].kind = "leaf"

\* C20: after any sequence of tree operations, the nlink written in the
\* dumpfile for every leaf is the number of directory entries of the
\* current tree that refer to the leaf.
C20_LeafNlink ==
    /\ \A id \in DOMAIN fsys.leaves : fsys.leaves[id].strong = Cardinality(EntriesTo(id))
    /\ dumpfile # <<>> =>
          /\ \A q \in DOMAIN fsys.tree :
                fsys.tree[q].kind = "leaf" =>
                    \E i \in LinesOf("leaf") : dumpfile[i].path \in EntriesTo(fsys.tree[q].leaf)
          /\ \A i \in LinesOf("leaf") :
                dumpfile[i].nlink = Cardinality(EntriesTo(fsys.tree[dumpfile[i].path].leaf))
\* The fourth entry put a new leaf where a directory was; the one leaf
\* that is left beside it is written with nlink 1.
C20_Witness ==
    /\ dumpfile # <<>> /\ applied.n = 4 /\ applied.res = "Ok"
    /\ applied.entry.item = "Leaf" /\ applied.entry.path = << <<"b">> >>
    /\ DOMAIN fsys.tree = {<<>>, << <<"a">> >>, << <<"b">> >>}
    /\ fsys.tree[<< <<"a">> >>].kind = "leaf"
    /\ \A i \in LinesOf("leaf") : dumpfile[i].nlink = 1

\* The directories strictly between the common ancestor of name's parent
\* and target, and the symlink.
BetweenDirs(name, target) ==
    {d \in {SubSeq(name, 1, i) : i \in 1..(Len(name) - 1)} :
        ~(Len(d) <= Len(target) /\ SubSeq(target, 1, Len(d)) = d)}

\* C21: the link Repository::symlink(name, target) stores is a relative
\* path that, read from the directory of the symlink, denotes target; every
\* missing directory between the common ancestor and the symlink is made;
\* and the call ends without crashing, for every pair (name, target).
C21_SymlinkRelative ==
    linked.n > 0 =>
        /\ linked.res # "panic"
        /\ linked.res = "Ok" =>
              /\ linked.name \in DOMAIN links
              /\ Walk(Parent(linked.name), links[linked.name]) = linked.target
              /\ BetweenDirs(linked.name, linked.target) \subseteq dirs
\* C21, the calls that return: what is true of them.
C21_ReturnedCalls ==
    (linked.n > 0 /\ linked.res = "Ok") =>
        /\ linked.name \in DOMAIN links
        /\ Walk(Parent(linked.name), links[linked.name]) = linked.target
        /\ BetweenDirs(linked.name, linked.target) \subseteq dirs

\* The index a plain search from the front gives: the entry with the name,
\* or the number of entries whose name is smaller.
PlainSearch(name) ==
    IF \E i \in DOMAIN dent : dent[i].name = name
    THEN <<"Ok", (CHOOSE i \in DOMAIN dent : dent[i].name = name) - 1>>
    ELSE <<"Err", Cardinality({i \in DOMAIN dent : cmp(dent[i].name, name) = "Less"})>>

\* C22: after any sequence of mkdir, insert, remove and remove_all on a
\* directory that starts empty, entries is strictly increasing in the
\* byte-wise order of names, and find_entry, fast path included, gives
\* the found index or insertion index a plain binary search gives.
C22_EntriesSorted ==
    /\ \A i \in 1..(Len(dent) - 1) : cmp(dent[i].name, dent[i + 1].name) = "Less"
    /\ \A name \in DirNames :
          /\ Directory_find_entry(dent, name) = binary_search(dent, name, 0, Len(dent))
          /\ Directory_find_entry(dent, name) = PlainSearch(name)
\* A full directory whose last name is not the greatest name tried: names
\* have been inserted before the last entry and removed again.
C22_Witness ==
    /\ Len(dent) = MaxDirEntries /\ dres = "Ok"
    /\ dent[1].name = <<1, 1>> /\ dent[Len(dent)].name = <<2, 1>>
    /\ \E i \in DOMAIN dent : dent[i].kind = "leaf"

\* The step applies a directory entry at a path that holds an inode of `kind`.
MkdirOver(kind) ==
    /\ applied'.n = applied.n + 1
    /\ applied'.entry.item = "Directory"
    /\ applied'.entry.path # <<>>
    /\ Head(AppliedName) # Wh
    /\ applied'.entry.path \in DOMAIN fsys.tree
    /\ fsys.tree[applied'.entry.path].kind = kind

\* C23: mkdir(name, stat) on a name that is already a subdirectory replaces
\* only that subdirectory's stat; its children with their subtrees and
\* every other entry of the parent are unchanged.
C23_Step ==
    MkdirOver("dir") =>
        /\ applied'.res = "Ok"
        /\ fsys'.tree[applied'.entry.path] = DirNode(applied'.entry.stat)
        /\ OutsideSame({applied'.entry.path})
        /\ fsys'.leaves = fsys.leaves
C23_MkdirKeepsChildren == [][C23_Step]_vars
\* The directory b was declared again with another stat and still holds
\* the directory and the leaf put into it before.
C23_Witness ==
    /\ applied.entry.item = "Directory" /\ applied.entry.path = << <<"b">> >>
    /\ applied.res = "Ok" /\ applied.entry.stat = 2
    /\ fsys.tree[<< <<"b">> >>] = DirNode(2)
    /\ << <<"b">>, <<"a">> >> \in DOMAIN fsys.tree
    /\ fsys.tree[<< <<"b">>, <<"a">> >>] = DirNode(1)
    /\ << <<"b">>, <<"b">> >> \in DOMAIN fsys.tree
    /\ fsys.tree[<< <<"b">>, <<"b">> >>].kind = "leaf"

\* C24: mkdir on a name that holds a leaf is reported to the caller as an
\* error result, not by aborting the process, and the tree is unchanged.
C24_Step ==
    MkdirOver("leaf") =>
        /\ applied'.res = "Err"
        /\ fsys' = fsys
C24_MkdirOverLeafIsError == [][C24_Step]_vars

\* Pre-order with children in the order of names: a path comes before the
\* paths below it, and otherwise the first differing name decides.
NameIndex(n) == CHOOSE i \in DOMAIN PlainNames : PlainNames[i] = n
PathBefore(p, q) ==
    \/ Len(p) < Len(q) /\ SubSeq(q, 1, Len(p)) = p
    \/ \E i \in 1..Len(p) :
          /\ i <= Len(q) /\ SubSeq(p, 1, i - 1) = SubSeq(q, 1, i - 1)
          /\ NameIndex(p[i]) < NameIndex(q[i])
FirstPath(S) == CHOOSE p \in S : \A q \in S \ {p} : PathBefore(p, q)

\* C25: for every leaf referred to by k > 1 entries write_dumpfile writes
\* one full line, at the first referring path in pre-order and with nlink
\* k, and k - 1 hardlink lines with mode @120000, size 0 and that first
\* path as target; a leaf with one entry is never written as a hardlink.
C25_HardlinkLines ==
    dumpfile # <<>> =>
        \A id \in DOMAIN fsys.leaves :
            LET refs == EntriesTo(id)
                full == {i \in LinesOf("leaf") : dumpfile[i].path \in refs}
                hard == {i \in LinesOf("hardlink") : dumpfile[i].path \in refs} IN
            /\ Cardinality(full) = 1
            /\ \A i \in full :
                  dumpfile[i].path = FirstPath(refs) /\ dumpfile[i].nlink = Cardinality(refs)
            /\ Cardinality(hard) = Cardinality(refs) - 1
            /\ Cardinality({dumpfile[i].path : i \in hard}) = Cardinality(hard)
            /\ \A i \in hard :
                  /\ dumpfile[i].target = FirstPath(refs)
                  /\ dumpfile[i].mode = "@120000" /\ dumpfile[i].size = 0
\* The file b was linked to a/b afterwards; the full line is the one of
\* a/b, which the walk meets first, and b is the hardlink line.
C25_Witness ==
    /\ Len(dumpfile) = 4
    /\ dumpfile[3].kind = "leaf" /\ dumpfile[3].path = << <<"a">>, <<"b">> >>
    /\ dumpfile[3].nlink = 2
    /\ dumpfile[4].kind = "hardlink" /\ dumpfile[4].path = << <<"b">> >>
    /\ dumpfile[4].target = << <<"a">>, <<"b">> >>

\* Where the reader stands in its stream, and the bytes of the inline
\* frame it stands in that it has not read yet.
ReadPos(r) == Len(Concat(rstream)) - Len(r.decoder)
FrameStart(i) == Len(Concat(SubSeq(rstream, 1, i - 1)))
FrameUnread(r) ==
    LET inside == {i \in DOMAIN rstream :
                     /\ rstream[i][1][2] > 0
                     /\ FrameStart(i) < ReadPos(r)
                     /\ ReadPos(r) <= FrameStart(i) + Len(rstream[i])} IN
    IF inside = {} THEN 0
    ELSE LET i == CHOOSE j \in inside : TRUE IN FrameStart(i) + Len(rstream[i]) - ReadPos(r)
\* The frame that starts where the reader stands, 0 when there is none.
FrameAhead(r) ==
    IF \E i \in DOMAIN rstream : FrameStart(i) = ReadPos(r)
    THEN CHOOSE i \in DOMAIN rstream : FrameStart(i) = ReadPos(r) ELSE 0
\* What is left to read: inline bytes, and D(id) for an external frame.
Unread(r) ==
    SubSeq(r.decoder, 1, r.inline_bytes)
    \o FramesFlat(SubSeq(r.decoder, r.inline_bytes + 1, Len(r.decoder)))
\* The inline bytes at hand: those of the frame the reader stands in, or of
\* the inline frame ahead.
InlineAtHand(r) ==
    IF FrameUnread(r) > 0 THEN FrameUnread(r)
    ELSE IF FrameAhead(r) # 0 /\ rstream[FrameAhead(r)][1][2] > 0
         THEN rstream[FrameAhead(r)][1][2] ELSE 0
ExternalAhead(r) ==
    FrameUnread(r) = 0 /\ FrameAhead(r) # 0 /\ rstream[FrameAhead(r)][1][2] = 0

\* read_exact(actual, stored) on a record that has stored bytes.
C26_RecordStep ==
    (rcall'.op = "read_exact" /\ rcall' # rcall /\ rcall'.stored > 0) =>
        LET a == rcall'.actual
            st == rcall'.stored
            u == Unread(rd) IN
        IF ExternalAhead(rd)
        THEN LET after == [rd EXCEPT !.decoder = SubSeq(@, 3, Len(@))] IN
             IF a = st \/ InlineAtHand(after) >= st - a
             THEN /\ rcall'.res = "External" /\ rcall'.id = u[1][2]
                  /\ Unread(rd') = SubSeq(u, 2 + (st - a), Len(u))
             ELSE rcall'.res = "Err"
        ELSE IF InlineAtHand(rd) >= st
             THEN /\ rcall'.res = "Inline" /\ rcall'.content = SubSeq(u, 1, a)
                  /\ Unread(rd') = SubSeq(u, st + 1, Len(u))
             ELSE rcall'.res = "Err"
\* read_exact(0, 0): nothing of what is left to read is consumed.
C26_EmptyRecordStep ==
    (rcall'.op = "read_exact" /\ rcall'.stored = 0) =>
        /\ rcall'.res # "External"
        /\ rcall'.res # "Err" => Unread(rd') = Unread(rd)
C26_CounterStep == rcall'.res # "Err" => rd'.inline_bytes = FrameUnread(rd')

\* C26: in every reader state reached by read_inline_exact and read_exact
\* calls inline_bytes is the number of unread bytes of the current inline
\* frame, and read_exact(actual, stored), stored = 0 included, consumes one
\* record: an external frame's digest and stored - actual following inline
\* bytes, or stored inline bytes of which the first actual are returned;
\* a record with stored = 0 consumes no frame of a later record; EOF or an
\* inline frame with too few bytes is an error.
C26_ReadExactOneRecord ==
    [][C26_CounterStep /\ C26_RecordStep /\ C26_EmptyRecordStep]_vars
\* C26, without the records of no bytes.
C26_NonEmptyRecords == [][C26_CounterStep /\ C26_RecordStep]_vars

\* C27: in ensure_layer the driver is awaited only when split_async has read
\* the whole blob and write_stream has stored the stream, and with a proxy that
\* delivers every byte each execution comes to an end, Ok or Err.
C27_DriverAwaited == fpc = "driver" => nread = blob /\ pipe = 0 /\ fstored
C27_FetchCompletes == []C27_DriverAwaited /\ <>(fpc \in {"Ok", "Err"})
C27_Witness == fpc = "Ok" /\ blob > PipeCap /\ nread = blob /\ fstored


\* C28: whenever streams/<config-sha256> exists, every diff_id the config lists
\* has a layer stream, and the digest map of the config stream maps it to the
\* object of that layer stream.
LayersComplete ==
    \A i \in 1..Len(pimage.diff_ids) :
        LET d == pimage.diff_ids[i] IN
          /\ d \in DOMAIN pstreams
          /\ d \in DOMAIN pstreams[ConfigName].map
          /\ pstreams[ConfigName].map[d] = pstreams[d].id
C28_ConfigImpliesLayers == ConfigName \in DOMAIN pstreams => LayersComplete

\* C28, for an image whose manifest has a layer for every diff_id of its
\* config: the config stream exists only with all its layers.
C28_ManifestCoversConfig ==
    (ConfigName \in DOMAIN pstreams /\ Len(pimage.layers) >= Len(pimage.diff_ids))
        => LayersComplete


\* C29: when the tree assembled from the layers is written out, the root line
\* carries no "assigned later" value: its mode, uid and gid are not 0xFFFFFFFF
\* and its mtime is not -1.
C29_RootLineDefaulted ==
    dumpfile # <<>> =>
        LET st == Stat(dumpfile[1].stat) IN
          /\ dumpfile[1].path = <<>>
          /\ st.st_mode # U32_MAX /\ st.st_uid # U32_MAX /\ st.st_gid # U32_MAX
          /\ st.st_mtim_sec # -1


\* C30: when ensure_stream runs its callback and the callback fails, or done()
\* rejects the content hash, the call returns an error, no symbolic link is made
\* (neither streams/<hex> nor streams/refs/<name>), the stream is still missing
\* for the next call, and every object, those the callback wrote included, stays.
C30_Step ==
    (call'.n = call.n + 1 /\ BuildFails)
    => /\ call'.res = "Err"
       /\ links' = links
       /\ has_stream(links', Sha256Hash(LayerBytes(call'.k)))[1] = "None"
       /\ DOMAIN objects \subseteq DOMAIN objects'
       /\ \A i \in DOMAIN callback_writes(call'.cb) :
            callback_writes(call'.cb)[i][1] = "external"
                => \E path \in DOMAIN objects' :
                      parse_object_path(path) = FsVerityHash(callback_writes(call'.cb)[i][2])
C30_FailedEnsureStream == [][C30_Step]_vars
C30_Witness ==
    /\ call.op = "ensure_stream" /\ call.res = "Err"
    /\ call.cb = Append(LayerCalls(call.k), CallbackErr)
    /\ StreamPath(Sha256Hash(LayerBytes(call.k))) \notin DOMAIN links
    /\ FilesFor(FsVerityHash(Payload(call.k))) # {}

====
